---- MODULE Spec2Model ----
(***************************************************************************)
(* A model of the client-side session store of prompt_manus                *)
(* (frontend/src/contexts/AuthContext.jsx): the AuthProvider's state, the  *)
(* initialisation effect, and the operations login, register, logout,      *)
(* updateUser and changePassword, run on the browser's single-threaded     *)
(* event loop.  An asynchronous operation is two steps: the call, which    *)
(* runs up to its await, and the settlement, which runs from the arrival   *)
(* of the API client's answer to the return.  Steps of different calls     *)
(* interleave; a step itself is atomic.                                    *)
(*                                                                         *)
(* Text (a localStorage value) is a sequence of lexemes, so that           *)
(* JSON.stringify and JSON.parse are two different computations.           *)
(* localStorage is modelled as the Web Storage map: its calls do not fail. *)
(* The user-visible strings of the source are Chinese; the model names     *)
(* them in ASCII and quotes the source line next to each.                  *)
(***************************************************************************)
EXTENDS Integers, Sequences, FiniteSets, TLC

VARIABLES user, loading, storage, inflight, issued, sent, last, answered,
          beforeLogout, location, hops, entered, view, vlast,
          theme, rootClasses, prefersDark, themeReady, tlast,
          tags, newTag, promptLoading, elast, hlast

\* The theme store (ThemeContext.jsx) and the browser state it reads and
\* writes besides localStorage.
themeVars == <<theme, rootClasses, prefersDark, themeReady, tlast>>

\* The router's location and the chain of redirects that led to it, and
\* the state of the page component mounted there.
appVars == <<location, hops, entered, view, vlast>>

\* The tag list of the prompt editor (PromptEditor.jsx), its input and
\* loading flag, and the editor's step just taken; the last call of
\* useAuth or useTheme.
leafVars == <<tags, newTag, promptLoading, elast, hlast>>

vars == <<user, loading, storage, inflight, issued, sent, last, answered,
          beforeLogout, themeVars, appVars, leafVars>>

(***************************************************************************)
(* Bounds of the model.                                                    *)
(***************************************************************************)
\* The number of asynchronous session calls made in one behaviour.
MaxCalls == 2

\* The number of redirects the router is followed through in a row.
MaxHops == 4

(***************************************************************************)
(* JavaScript values.                                                      *)
(***************************************************************************)
JNull == [type |-> "null"]
JUndef == [type |-> "undefined"]
JNum(n) == [type |-> "number", n |-> n]
JStr(s) == [type |-> "string", s |-> s]
JObj(fields) == [type |-> "object", fields |-> fields]

\* ToBoolean of a value: what `if (v)`, `v || w` and `v ? a : b` test.
Truthy(v) ==
    CASE v.type = "null" -> FALSE
      [] v.type = "undefined" -> FALSE
      [] v.type = "number" -> v.n # 0
      [] v.type = "string" -> v.s # ""
      [] OTHER -> TRUE

\* a || b
Or(a, b) == IF Truthy(a) THEN a ELSE b

\* v.key for a value that is neither null nor undefined (those throw).
GetProp(v, key) ==
    IF v.type = "object" /\ key \in DOMAIN v.fields THEN v.fields[key] ELSE JUndef

\* Whether reading a property of v throws a TypeError.
PropThrows(v) == v.type \in {"null", "undefined"}

(***************************************************************************)
(* Text and JSON.                                                          *)
(***************************************************************************)
Punct(s) == [k |-> "punct", s |-> s, n |-> 0]
StrTok(s) == [k |-> "string", s |-> s, n |-> 0]
NumTok(n) == [k |-> "number", s |-> "", n |-> n]
Word(s) == [k |-> "word", s |-> s, n |-> 0]

LBrace == Punct("{")
RBrace == Punct("}")
Colon == Punct(":")
Comma == Punct(",")

\* The order in which the properties of an identity object were inserted.
KeyOrder == <<"id", "username">>

StringifyScalar(v) ==
    CASE v.type = "null" -> <<Word("null")>>
      [] v.type = "number" -> <<NumTok(v.n)>>
      [] v.type = "string" -> <<StrTok(v.s)>>
      [] OTHER -> <<Word("undefined")>>

RECURSIVE StringifyMembers(_, _, _)
StringifyMembers(fields, i, first) ==
    IF i > Len(KeyOrder) THEN <<>>
    ELSE IF KeyOrder[i] \in DOMAIN fields
         THEN (IF first THEN <<>> ELSE <<Comma>>)
              \o <<StrTok(KeyOrder[i]), Colon>>
              \o StringifyScalar(fields[KeyOrder[i]])
              \o StringifyMembers(fields, i + 1, FALSE)
         ELSE StringifyMembers(fields, i + 1, first)

\* String(JSON.stringify(v)): the text localStorage.setItem stores.
Stringify(v) ==
    IF v.type = "object"
    THEN <<LBrace>> \o StringifyMembers(v.fields, 1, TRUE) \o <<RBrace>>
    ELSE StringifyScalar(v)

ParseFail == [ok |-> FALSE, val |-> JUndef]
ParseOk(v) == [ok |-> TRUE, val |-> v]

ParseScalar(tok) ==
    CASE tok.k = "number" -> ParseOk(JNum(tok.n))
      [] tok.k = "string" -> ParseOk(JStr(tok.s))
      [] tok.k = "word" /\ tok.s = "null" -> ParseOk(JNull)
      [] OTHER -> ParseFail

\* The members of an object literal, without its braces: key : scalar
\* pairs separated by commas.  A repeated key keeps its last value.
RECURSIVE ParseMembers(_)
ParseMembers(ts) ==
    IF Len(ts) < 3 \/ ts[1].k # "string" \/ ts[2] # Colon \/ ~ParseScalar(ts[3]).ok
    THEN [ok |-> FALSE, fields |-> <<>>]
    ELSE IF Len(ts) = 3
         THEN [ok |-> TRUE, fields |-> (ts[1].s :> ParseScalar(ts[3]).val)]
         ELSE IF ts[4] # Comma
              THEN [ok |-> FALSE, fields |-> <<>>]
              ELSE LET rest == ParseMembers(SubSeq(ts, 5, Len(ts)))
                   IN  [ok |-> rest.ok,
                        fields |-> rest.fields @@ (ts[1].s :> ParseScalar(ts[3]).val)]

\* JSON.parse(text): ok is FALSE where JSON.parse throws a SyntaxError.
Parse(text) ==
    IF Len(text) = 0 THEN ParseFail
    ELSE IF Len(text) = 1 THEN ParseScalar(text[1])
    ELSE IF text[1] = LBrace /\ text[Len(text)] = RBrace
         THEN IF Len(text) = 2 THEN ParseOk(JObj(<<>>))
              ELSE LET m == ParseMembers(SubSeq(text, 2, Len(text) - 1))
                   IN  IF m.ok THEN ParseOk(JObj(m.fields)) ELSE ParseFail
         ELSE ParseFail

(***************************************************************************)
(* The values the environment supplies.                                    *)
(***************************************************************************)
Alice == JObj([id |-> JNum(1), username |-> JStr("alice")])
Bob == JObj([id |-> JNum(2), username |-> JStr("bob")])

\* The identity objects the server answers with.
Identities == {Alice, Bob}

\* Contents of the 'user' key that no JSON.parse accepts: the empty string,
\* a truncated object, an object with a missing value, and the text that
\* String(undefined) gives.
CorruptTexts ==
    { <<>>,
      <<LBrace>>,
      SubSeq(Stringify(Alice), 1, Len(Stringify(Alice)) - 1),
      <<LBrace, StrTok("id"), Colon, RBrace>>,
      <<Word("undefined")>> }

\* Contents of the 'user' key that JSON.parse accepts and that are no
\* identity object: the text null.
ForeignTexts == { <<Word("null")>> }

\* What the 'user' key may hold when the page is loaded.
StoredTexts == {Stringify(u) : u \in Identities} \cup CorruptTexts \cup ForeignTexts

\* What the 'theme' key, the theme store's, may hold.
ThemeTexts == {<<Word("light")>>, <<Word("dark")>>}

\* localStorage when the page is loaded: each key absent or present.
SavedStorages ==
    LET users == {<<>>} \cup {("user" :> t) : t \in StoredTexts}
        themes == {<<>>} \cup {("theme" :> t) : t \in ThemeTexts}
    IN  {u @@ t : u \in users, t \in themes}

(***************************************************************************)
(* localStorage.                                                           *)
(***************************************************************************)
\* localStorage.getItem(key) !== null
HasItem(st, key) == key \in DOMAIN st

\* localStorage.setItem(key, text)
SetItem(st, key, text) == [k \in DOMAIN st \cup {key} |-> IF k = key THEN text ELSE st[k]]

\* localStorage.removeItem(key)
RemoveItem(st, key) == [k \in DOMAIN st \ {key} |-> st[k]]

\* `if (savedUser)`: getItem gave a string, and it is not the empty string.
TruthyItem(st, key) == HasItem(st, key) /\ Len(st[key]) > 0

(***************************************************************************)
(* The history variable `last`: the step just taken, the state it started  *)
(* from, and what it returned.                                             *)
(***************************************************************************)
NoResult == [state |-> "none"]
Pending == [state |-> "pending"]
Fulfilled(v) == [state |-> "fulfilled", value |-> v]
Rejected(e) == [state |-> "rejected", reason |-> e]

NoResponse == [kind |-> "none"]
NoRequest == [method |-> "none"]

Snapshot == [user |-> user, loading |-> loading, storage |-> storage, sent |-> sent]

Step(op, phase, cid, request, response, result) ==
    [op |-> op, phase |-> phase, cid |-> cid, request |-> request,
     response |-> response, result |-> result, pre |-> Snapshot]

(***************************************************************************)
(* AuthProvider: state after construction.                                 *)
(***************************************************************************)
\* The two theme values, as the strings the store holds and writes.
Light == <<Word("light")>>
Dark == <<Word("dark")>>

\* `beforeLogout` holds the calls in flight that were made before logout
\* last ran.
\* AuthProvider as constructed: no identity, loading, nothing requested.
SessionConstructed ==
    /\ user = JNull
    /\ loading = TRUE
    /\ inflight = <<>>
    /\ issued = 0
    /\ sent = 0
    /\ answered = <<>>
    /\ beforeLogout = {}
    /\ last = [op |-> "none", phase |-> "none", cid |-> 0, request |-> NoRequest,
               response |-> NoResponse, result |-> NoResult,
               pre |-> [user |-> JNull, loading |-> TRUE, storage |-> <<>>, sent |-> 0]]

ThemeSnapshot == [theme |-> theme, rootClasses |-> rootClasses, storage |-> storage]

\* ThemeProvider as constructed: useState('light'), its effect not yet
\* run, and no theme class on the document root.
\* PromptEditor for a new prompt as constructed, and no hook called yet.
NoEditorStep == [op |-> "none", arg |-> <<>>, pre |-> [tags |-> <<>>, newTag |-> <<>>]]
NoHookCall == [hook |-> "none", providers |-> {}, outcome |-> [kind |-> "none"]]

LeavesConstructed ==
    /\ tags = <<>>
    /\ newTag = <<>>
    /\ promptLoading = FALSE
    /\ elast = NoEditorStep
    /\ hlast = NoHookCall

ThemeConstructed ==
    /\ theme = Light
    /\ rootClasses = {}
    /\ themeReady = FALSE
    /\ tlast = [op |-> "none", arg |-> <<>>,
                pre |-> [theme |-> Light, rootClasses |-> {}, storage |-> <<>>],
                prevOp |-> "none",
                prevPre |-> [theme |-> Light, rootClasses |-> {}, storage |-> <<>>]]

\* The state a page component is mounted with: the useState initial
\* values of Login and Register (loading, error) and of Profile (loading,
\* message, isEditing, isChangingPassword).  `calls` holds the session
\* calls this instance of the component made that are still in flight.
FreshView ==
    [loading |-> FALSE, error |-> JStr(""),
     message |-> [type |-> "", content |-> JStr("")],
     isEditing |-> FALSE, isChangingPassword |-> FALSE, calls |-> {}]

\* `vlast` describes the last step as a page's handler saw it.
NoViewStep ==
    [op |-> "none", phase |-> "none", form |-> <<>>, cid |-> 0, mounted |-> FALSE,
     pre |-> [view |-> FreshView, location |-> <<>>, sent |-> 0]]

\* No page mounted yet.
PagesConstructed ==
    /\ view = FreshView
    /\ vlast = NoViewStep

\* The router as the page is loaded at the root path, before any redirect.
RouterConstructed ==
    /\ location = <<>>
    /\ hops = 0
    /\ entered = <<>>
    /\ PagesConstructed

\* The session store's behaviours start here; the theme store and the
\* router stay as they were constructed.
Init ==
    /\ SessionConstructed
    /\ ThemeConstructed
    /\ LeavesConstructed
    /\ RouterConstructed
    /\ prefersDark = FALSE
    /\ \E saved \in SavedStorages : storage = saved

(***************************************************************************)
(* The initialisation effect.                                              *)
(***************************************************************************)
\* The effect with the parsed value never adopted.
InitializeNotAdopting ==
    /\ loading = TRUE
    /\ IF TruthyItem(storage, "user") /\ ~Parse(storage["user"]).ok
       THEN storage' = RemoveItem(storage, "user")
       ELSE storage' = storage
    /\ user' = user
    /\ loading' = FALSE
    /\ last' = Step("initialize", "effect", 0, NoRequest, NoResponse, NoResult)
    /\ UNCHANGED <<inflight, issued, sent, answered, beforeLogout, themeVars, leafVars>>

Initialize ==
    /\ loading = TRUE
    /\ IF TruthyItem(storage, "user")
       THEN IF Parse(storage["user"]).ok
            THEN /\ user' = Parse(storage["user"]).val
                 /\ storage' = storage
            ELSE /\ user' = user
                 /\ storage' = RemoveItem(storage, "user")
       ELSE /\ user' = user
            /\ storage' = storage
    /\ loading' = FALSE
    /\ last' = Step("initialize", "effect", 0, NoRequest, NoResponse, NoResult)
    /\ UNCHANGED <<inflight, issued, sent, answered, beforeLogout, themeVars, leafVars>>

(***************************************************************************)
(* logout                                                                  *)
(***************************************************************************)
\* logout that clears the state and leaves the stored identity behind.
LogoutKeepsStorage ==
    /\ user' = JNull
    /\ beforeLogout' = DOMAIN inflight
    /\ storage' = storage
    /\ last' = Step("logout", "call", 0, NoRequest, NoResponse, Fulfilled(JUndef))
    /\ UNCHANGED <<loading, inflight, issued, sent, answered, themeVars, leafVars>>

Logout ==
    /\ user' = JNull
    /\ beforeLogout' = DOMAIN inflight
    /\ storage' = RemoveItem(storage, "user")
    /\ last' = Step("logout", "call", 0, NoRequest, NoResponse, Fulfilled(JUndef))
    /\ UNCHANGED <<loading, inflight, issued, sent, answered, themeVars, leafVars>>

(***************************************************************************)
(* The API client (lib/api): every request is answered, at some later      *)
(* step, by an envelope {success, data, message} or by a rejection.        *)
(***************************************************************************)
Resolve(success, data, message) ==
    [kind |-> "resolve", success |-> success, data |-> data, message |-> message]

\* A rejection: hasResponse is FALSE for a transport failure (no response
\* obtained); otherwise message is error.response.data.message.
Reject(hasResponse, message) ==
    [kind |-> "reject", hasResponse |-> hasResponse, message |-> message]

\* The TypeError of reading a property of null: it carries no response.
TypeError == [kind |-> "TypeError", hasResponse |-> FALSE, message |-> JUndef]

ServerMessages == {JUndef, JStr(""), JStr("bad credentials")}

\* The answers to a request whose success payload is an identity object.
IdentityOutcomes ==
    {Resolve(TRUE, d, JUndef) : d \in Identities}
        \cup {Resolve(FALSE, JUndef, m) : m \in ServerMessages}
        \cup {Reject(FALSE, JUndef)}
        \cup {Reject(TRUE, m) : m \in {JUndef, JStr("bad credentials")}}

\* The answers to change-password: success carries a flag only.
FlagOutcomes ==
    {Resolve(TRUE, JUndef, JUndef)}
        \cup {Resolve(FALSE, JUndef, m) : m \in ServerMessages}
        \cup {Reject(FALSE, JUndef)}
        \cup {Reject(TRUE, m) : m \in {JUndef, JStr("bad credentials")}}

\* error.response?.data?.message
ErrorMessage(error) == IF error.hasResponse THEN error.message ELSE JUndef

Request(method, path, body) == [method |-> method, path |-> path, body |-> body]

(***************************************************************************)
(* What the callers pass.                                                  *)
(***************************************************************************)
Credentials == {<<"alice", "secret">>, <<"alice", "wrong">>}
Registrations == {<<"bob", "bob@example.org", "secret1", "Bob">>}
Patches == {[username |-> "alicia"]}
PasswordChanges == {<<"secret", "secret2">>}

(***************************************************************************)
(* The fallback messages of the source.                                    *)
(***************************************************************************)
LoginFailed == JStr("login failed")                 \* AuthContext.jsx:46
RegisterFailed == JStr("registration failed")       \* AuthContext.jsx:73
UpdateFailed == JStr("update failed")               \* AuthContext.jsx:101
ChangePasswordFailed == JStr("password change failed")  \* AuthContext.jsx:123
NetworkError == JStr("network error, retry later")  \* AuthContext.jsx:52,79,107,129

(***************************************************************************)
(* Operation results, and the effect of a step on the store.               *)
(***************************************************************************)
Ok(u) == [success |-> TRUE, user |-> u]
OkFlag == [success |-> TRUE]
Fail(e) == [success |-> FALSE, error |-> e]

Effect(u, st, result) == [user |-> u, storage |-> st, result |-> result]

(***************************************************************************)
(* login                                                                   *)
(***************************************************************************)
\* login that adopts the identity and forgets to persist it.
LoginSuccessNotPersisted(u, st, response) ==
    Effect(response.data, st, Fulfilled(Ok(response.data)))

LoginSuccess(u, st, response) ==
    LET userData == response.data
    IN  Effect(userData, SetItem(st, "user", Stringify(userData)),
               Fulfilled(Ok(userData)))

\* login that drops the session when the server rejects the credentials.
LoginFailureClearsUser(u, st, response) ==
    Effect(JNull, RemoveItem(st, "user"),
           Fulfilled(Fail(Or(response.message, LoginFailed))))

LoginFailure(u, st, response) ==
    Effect(u, st, Fulfilled(Fail(Or(response.message, LoginFailed))))

LoginCatch(u, st, error) ==
    Effect(u, st, Fulfilled(Fail(Or(ErrorMessage(error), NetworkError))))

\* From the arrival of the answer to the return.
LoginSettled(u, st, r) ==
    IF r.kind = "resolve"
    THEN IF r.success THEN LoginSuccess(u, st, r) ELSE LoginFailure(u, st, r)
    ELSE LoginCatch(u, st, r)

LoginCall(usernameOrEmail, password) ==
    /\ issued < MaxCalls
    /\ issued' = issued + 1
    /\ sent' = sent + 1
    /\ inflight' = inflight @@ ((issued + 1) :>
          [op |-> "login",
           request |-> Request("POST", <<"users", "login">>,
                               [username_or_email |-> usernameOrEmail,
                                password |-> password])])
    /\ last' = Step("login", "call", issued + 1, inflight'[issued + 1].request, NoResponse, Pending)
    /\ UNCHANGED <<user, loading, storage, answered, beforeLogout, themeVars, leafVars>>

\* An entry of `answered`, the history of the settlements in the order
\* they ran: which call, and the identity its answer carried, if any.
Answer(cid, op, r) ==
    [cid |-> cid, op |-> op,
     success |-> (r.kind = "resolve" /\ r.success),
     data |-> IF r.kind = "resolve" /\ r.success THEN r.data ELSE JUndef]

\* The store after call cid has run from its await to its return.
Settle(cid, r, e) ==
    /\ user' = e.user
    /\ storage' = e.storage
    /\ inflight' = [c \in DOMAIN inflight \ {cid} |-> inflight[c]]
    /\ last' = Step(inflight[cid].op, "settle", cid, inflight[cid].request, r, e.result)
    /\ answered' = Append(answered, Answer(cid, inflight[cid].op, r))
    /\ beforeLogout' = beforeLogout \ {cid}
    /\ UNCHANGED <<loading, issued, sent, themeVars, leafVars>>

\* login that sends its request once more when the first one failed,
\* keeping the call in flight.
LoginSettleRetrying(cid, r) ==
    /\ cid \in DOMAIN inflight
    /\ inflight[cid].op = "login"
    /\ IF (r.kind = "reject" \/ ~r.success) /\ sent <= issued
       THEN /\ sent' = sent + 1
            /\ last' = Step("login", "settle", cid, inflight[cid].request, r, Pending)
            /\ UNCHANGED <<user, loading, storage, inflight, issued, answered,
                           beforeLogout, themeVars, leafVars>>
       ELSE Settle(cid, r, LoginSettled(user, storage, r))

LoginSettle(cid, r) ==
    /\ cid \in DOMAIN inflight
    /\ inflight[cid].op = "login"
    /\ Settle(cid, r, LoginSettled(user, storage, r))

(***************************************************************************)
(* register                                                                *)
(***************************************************************************)
\* register that persists the new identity without adopting it.
RegisterSuccessNotAdopted(u, st, response) ==
    Effect(u, SetItem(st, "user", Stringify(response.data)),
           Fulfilled(Ok(response.data)))

RegisterSuccess(u, st, response) ==
    LET userData == response.data
    IN  Effect(userData, SetItem(st, "user", Stringify(userData)),
               Fulfilled(Ok(userData)))

RegisterFailure(u, st, response) ==
    Effect(u, st, Fulfilled(Fail(Or(response.message, RegisterFailed))))

RegisterCatch(u, st, error) ==
    Effect(u, st, Fulfilled(Fail(Or(ErrorMessage(error), NetworkError))))

RegisterSettled(u, st, r) ==
    IF r.kind = "resolve"
    THEN IF r.success THEN RegisterSuccess(u, st, r) ELSE RegisterFailure(u, st, r)
    ELSE RegisterCatch(u, st, r)

RegisterCall(username, email, password, displayName) ==
    /\ issued < MaxCalls
    /\ issued' = issued + 1
    /\ sent' = sent + 1
    /\ inflight' = inflight @@ ((issued + 1) :>
          [op |-> "register",
           request |-> Request("POST", <<"users">>,
                               [username |-> username, email |-> email,
                                password |-> password,
                                display_name |-> displayName])])
    /\ last' = Step("register", "call", issued + 1, inflight'[issued + 1].request, NoResponse, Pending)
    /\ UNCHANGED <<user, loading, storage, answered, beforeLogout, themeVars, leafVars>>

RegisterSettle(cid, r) ==
    /\ cid \in DOMAIN inflight
    /\ inflight[cid].op = "register"
    /\ Settle(cid, r, RegisterSettled(user, storage, r))

(***************************************************************************)
(* updateUser                                                              *)
(***************************************************************************)
\* updateUser that adopts the server's identity and forgets to persist it.
UpdateUserSuccessNotPersisted(u, st, response) ==
    Effect(response.data, st, Fulfilled(Ok(response.data)))

UpdateUserSuccess(u, st, response) ==
    LET updatedUser == response.data
    IN  Effect(updatedUser, SetItem(st, "user", Stringify(updatedUser)),
               Fulfilled(Ok(updatedUser)))

UpdateUserFailure(u, st, response) ==
    Effect(u, st, Fulfilled(Fail(Or(response.message, UpdateFailed))))

\* updateUser that drops the session on any error.
UpdateUserCatchClearsUser(u, st, error) ==
    Effect(JNull, RemoveItem(st, "user"),
           Fulfilled(Fail(Or(ErrorMessage(error), NetworkError))))

UpdateUserCatch(u, st, error) ==
    Effect(u, st, Fulfilled(Fail(Or(ErrorMessage(error), NetworkError))))

UpdateUserSettled(u, st, r) ==
    IF r.kind = "resolve"
    THEN IF r.success THEN UpdateUserSuccess(u, st, r) ELSE UpdateUserFailure(u, st, r)
    ELSE UpdateUserCatch(u, st, r)

\* updateUser that misspells the property holding the id (`user.Id`).
UpdateUserCallWrongId(userData) ==
    /\ issued < MaxCalls
    /\ issued' = issued + 1
    /\ IF PropThrows(user)
       THEN /\ last' = Step("updateUser", "call", issued + 1, NoRequest, NoResponse,
                            Fulfilled(Fail(NetworkError)))
            /\ UNCHANGED <<inflight, sent>>
       ELSE /\ sent' = sent + 1
            /\ inflight' = inflight @@ ((issued + 1) :>
                  [op |-> "updateUser",
                   request |-> Request("PUT", <<"users", GetProp(user, "Id")>>,
                                       userData)])
            /\ last' = Step("updateUser", "call", issued + 1,
                            inflight'[issued + 1].request, NoResponse, Pending)
    /\ UNCHANGED <<user, loading, storage, answered, beforeLogout, themeVars, leafVars>>

\* updateUser with the request path built before the try block: the
\* TypeError of `user.id` rejects the promise the call returns.
UpdateUserCallPathOutsideTry(userData) ==
    /\ issued < MaxCalls
    /\ issued' = issued + 1
    /\ IF PropThrows(user)
       THEN /\ last' = Step("updateUser", "call", issued + 1, NoRequest, NoResponse,
                            Rejected(TypeError))
            /\ UNCHANGED <<inflight, sent>>
       ELSE /\ sent' = sent + 1
            /\ inflight' = inflight @@ ((issued + 1) :>
                  [op |-> "updateUser",
                   request |-> Request("PUT", <<"users", GetProp(user, "id")>>,
                                       userData)])
            /\ last' = Step("updateUser", "call", issued + 1,
                            inflight'[issued + 1].request, NoResponse, Pending)
    /\ UNCHANGED <<user, loading, storage, answered, beforeLogout, themeVars, leafVars>>

\* The call up to its await: `user.id` is read inside the try block, so
\* with no current identity the TypeError goes to the catch block and the
\* call returns at once, without a request.
UpdateUserCall(userData) ==
    /\ issued < MaxCalls
    /\ issued' = issued + 1
    /\ IF PropThrows(user)
       THEN /\ last' = Step("updateUser", "call", issued + 1, NoRequest, NoResponse,
                            UpdateUserCatch(user, storage, TypeError).result)
            /\ UNCHANGED <<inflight, sent>>
       ELSE /\ sent' = sent + 1
            /\ inflight' = inflight @@ ((issued + 1) :>
                  [op |-> "updateUser",
                   request |-> Request("PUT", <<"users", GetProp(user, "id")>>,
                                       userData)])
            /\ last' = Step("updateUser", "call", issued + 1, inflight'[issued + 1].request, NoResponse, Pending)
    /\ UNCHANGED <<user, loading, storage, answered, beforeLogout, themeVars, leafVars>>

\* updateUser with a request-sequence guard: only the answer to the
\* latest call issued is applied, an older one is reported and dropped.
UpdateUserSettleLatestOnly(cid, r) ==
    /\ cid \in DOMAIN inflight
    /\ inflight[cid].op = "updateUser"
    /\ Settle(cid, r,
              IF cid = issued THEN UpdateUserSettled(user, storage, r)
              ELSE Effect(user, storage, UpdateUserSettled(user, storage, r).result))

UpdateUserSettle(cid, r) ==
    /\ cid \in DOMAIN inflight
    /\ inflight[cid].op = "updateUser"
    /\ Settle(cid, r, UpdateUserSettled(user, storage, r))

(***************************************************************************)
(* changePassword                                                          *)
(***************************************************************************)
\* changePassword that signs the user out once the password has changed.
ChangePasswordSuccessSignsOut(u, st, response) ==
    Effect(JNull, RemoveItem(st, "user"), Fulfilled(OkFlag))

ChangePasswordSuccess(u, st, response) ==
    Effect(u, st, Fulfilled(OkFlag))

\* changePassword that reports its own message, whatever the server said.
ChangePasswordFailureGeneric(u, st, response) ==
    Effect(u, st, Fulfilled(Fail(ChangePasswordFailed)))

ChangePasswordFailure(u, st, response) ==
    Effect(u, st, Fulfilled(Fail(Or(response.message, ChangePasswordFailed))))

ChangePasswordCatch(u, st, error) ==
    Effect(u, st, Fulfilled(Fail(Or(ErrorMessage(error), NetworkError))))

ChangePasswordSettled(u, st, r) ==
    IF r.kind = "resolve"
    THEN IF r.success THEN ChangePasswordSuccess(u, st, r)
         ELSE ChangePasswordFailure(u, st, r)
    ELSE ChangePasswordCatch(u, st, r)

ChangePasswordCall(oldPassword, newPassword) ==
    /\ issued < MaxCalls
    /\ issued' = issued + 1
    /\ IF PropThrows(user)
       THEN /\ last' = Step("changePassword", "call", issued + 1, NoRequest, NoResponse,
                            ChangePasswordCatch(user, storage, TypeError).result)
            /\ UNCHANGED <<inflight, sent>>
       ELSE /\ sent' = sent + 1
            /\ inflight' = inflight @@ ((issued + 1) :>
                  [op |-> "changePassword",
                   request |-> Request("POST",
                                       <<"users", GetProp(user, "id"), "change-password">>,
                                       [old_password |-> oldPassword,
                                        new_password |-> newPassword])])
            /\ last' = Step("changePassword", "call", issued + 1, inflight'[issued + 1].request, NoResponse, Pending)
    /\ UNCHANGED <<user, loading, storage, answered, beforeLogout, themeVars, leafVars>>

ChangePasswordSettle(cid, r) ==
    /\ cid \in DOMAIN inflight
    /\ inflight[cid].op = "changePassword"
    /\ Settle(cid, r, ChangePasswordSettled(user, storage, r))

(***************************************************************************)
(* The session store.                                                      *)
(***************************************************************************)
\* The session store by itself: its operations invoked in any order, with
\* the router left where it was constructed.
Next ==
    \/ UNCHANGED appVars /\ Initialize
    \/ UNCHANGED appVars /\ Logout
    \/ UNCHANGED appVars /\ \E c \in Credentials : LoginCall(c[1], c[2])
    \/ UNCHANGED appVars /\ \E cid \in 1..MaxCalls, r \in IdentityOutcomes : LoginSettle(cid, r)
    \/ UNCHANGED appVars /\ \E g \in Registrations : RegisterCall(g[1], g[2], g[3], g[4])
    \/ UNCHANGED appVars /\ \E cid \in 1..MaxCalls, r \in IdentityOutcomes : RegisterSettle(cid, r)
    \/ UNCHANGED appVars /\ \E p \in Patches : UpdateUserCall(p)
    \/ UNCHANGED appVars /\ \E cid \in 1..MaxCalls, r \in IdentityOutcomes : UpdateUserSettle(cid, r)
    \/ UNCHANGED appVars /\ \E w \in PasswordChanges : ChangePasswordCall(w[1], w[2])
    \/ UNCHANGED appVars /\ \E cid \in 1..MaxCalls, r \in FlagOutcomes : ChangePasswordSettle(cid, r)

Spec == Init /\ [][Next]_vars

(***************************************************************************)
(* The theme store (ThemeContext.jsx).  A step is a whole handler with the *)
(* render it causes, so the next handler reads the theme this one set.     *)
(***************************************************************************)
\* What the 'theme' key may hold when the page is loaded, besides the two
\* values the store writes: a value of another vocabulary, and the empty
\* string.
StoredThemeTexts == ThemeTexts \cup {<<Word("blue")>>, <<>>}

\* localStorage when the page is loaded, for the theme store.
SavedThemeStorages ==
    LET users == {<<>>, ("user" :> Stringify(Alice))}
        themes == {<<>>} \cup {("theme" :> t) : t \in StoredThemeTexts}
    IN  {u @@ t : u \in users, t \in themes}

\* The values callers pass to setTheme.
ThemeModes == {Light, Dark}

\* window.matchMedia('(prefers-color-scheme: dark)').matches ? 'dark' : 'light'
SystemTheme(dark) == IF dark THEN Dark ELSE Light

\* Initialisation that ignores the environment: savedTheme || 'light'.
InitialThemeDefaultLight(st, dark) ==
    IF TruthyItem(st, "theme") THEN st["theme"] ELSE Light

\* savedTheme || systemTheme: getItem gives null for an absent key, and
\* null and the empty string are falsy.
InitialTheme(st, dark) ==
    IF TruthyItem(st, "theme") THEN st["theme"] ELSE SystemTheme(dark)

\* updateDocumentTheme that adds the class and removes none.
UpdateDocumentThemeAddOnly(classes, newTheme) == classes \cup {newTheme}

\* updateDocumentTheme: classList.remove('light', 'dark'); classList.add(newTheme)
UpdateDocumentTheme(classes, newTheme) ==
    (classes \ {Light, Dark}) \cup {newTheme}

\* A toggle that can only switch the dark theme on.
ToggledToDark(t) == Dark

\* theme === 'light' ? 'dark' : 'light'
Toggled(t) == IF t = Light THEN Dark ELSE Light

ThemeStep(op, arg) ==
    [op |-> op, arg |-> arg, pre |-> ThemeSnapshot,
     prevOp |-> tlast.op, prevPre |-> tlast.pre]

sessionVars == <<user, loading, inflight, issued, sent, last, answered, beforeLogout>>

ThemeInitialize ==
    /\ themeReady = FALSE
    /\ themeReady' = TRUE
    /\ theme' = InitialTheme(storage, prefersDark)
    /\ rootClasses' = UpdateDocumentTheme(rootClasses, InitialTheme(storage, prefersDark))
    /\ tlast' = ThemeStep("initialize", <<>>)
    /\ UNCHANGED <<storage, prefersDark, sessionVars, appVars, leafVars>>

ToggleTheme ==
    /\ theme' = Toggled(theme)
    /\ storage' = SetItem(storage, "theme", Toggled(theme))
    /\ rootClasses' = UpdateDocumentTheme(rootClasses, Toggled(theme))
    /\ tlast' = ThemeStep("toggleTheme", <<>>)
    /\ UNCHANGED <<themeReady, prefersDark, sessionVars, appVars, leafVars>>

SetThemeMode(newTheme) ==
    /\ theme' = newTheme
    /\ storage' = SetItem(storage, "theme", newTheme)
    /\ rootClasses' = UpdateDocumentTheme(rootClasses, newTheme)
    /\ tlast' = ThemeStep("setTheme", newTheme)
    /\ UNCHANGED <<themeReady, prefersDark, sessionVars, appVars, leafVars>>

\* The theme store's behaviours: any stored theme, either preference of
\* the environment; the session store stays as it was constructed.
ThemeInit ==
    /\ SessionConstructed
    /\ ThemeConstructed
    /\ LeavesConstructed
    /\ RouterConstructed
    /\ prefersDark \in BOOLEAN
    /\ \E saved \in SavedThemeStorages : storage = saved

ThemeNext ==
    \/ ThemeInitialize
    \/ ToggleTheme
    \/ \E m \in ThemeModes : SetThemeMode(m)

ThemeSpec == ThemeInit /\ [][ThemeNext]_vars

(***************************************************************************)
(* The route guards (App.jsx).  A guard keeps no state of its own: at      *)
(* every render it computes its element from the context's user and        *)
(* loading, and it is rendered again whenever either changes.              *)
(***************************************************************************)
LoadingIndicator == [el |-> "loading"]
Children == [el |-> "children"]
Navigate(to) == [el |-> "Navigate", to |-> to, replace |-> TRUE]

\* ProtectedRoute that renders its child to whoever asks.
ProtectedRouteOpen(u, l) ==
    IF l THEN LoadingIndicator ELSE Children

\* ProtectedRoute that decides before the session is restored.
ProtectedRouteNotWaiting(u, l) ==
    IF Truthy(u) THEN Children ELSE Navigate("/login")

\* ProtectedRoute that sends the signed-out visitor to the root path,
\* which it guards itself.
ProtectedRouteToRoot(u, l) ==
    IF l THEN LoadingIndicator
    ELSE IF Truthy(u) THEN Children ELSE Navigate("/")

ProtectedRoute(u, l) ==
    IF l THEN LoadingIndicator
    ELSE IF Truthy(u) THEN Children ELSE Navigate("/login")

\* PublicRoute that lets a signed-in user see the login form.
PublicRouteOpen(u, l) ==
    IF l THEN LoadingIndicator ELSE Children

\* PublicRoute that decides before the session is restored.
PublicRouteNotWaiting(u, l) ==
    IF Truthy(u) THEN Navigate("/dashboard") ELSE Children

PublicRoute(u, l) ==
    IF l THEN LoadingIndicator
    ELSE IF Truthy(u) THEN Navigate("/dashboard") ELSE Children

(***************************************************************************)
(* The router (App.jsx, AppRoutes).  A location is the sequence of the     *)
(* segments of its path.  The route chosen for a location is the best      *)
(* ranked of those whose pattern matches it; its element is rendered       *)
(* inside its guard.                                                       *)
(***************************************************************************)
\* The path literals of the source, as locations.
ParsePath(to) ==
    CASE to = "/" -> <<>>
      [] to = "/login" -> <<"login">>
      [] to = "/register" -> <<"register">>
      [] to = "/dashboard" -> <<"dashboard">>
      [] to = "/prompts" -> <<"prompts">>
      [] to = "/prompts/new" -> <<"prompts", "new">>
      [] to = "/profile" -> <<"profile">>
      [] to = "/analytics" -> <<"analytics">>

Page(name) == [el |-> "Page", page |-> name]

Route(pattern, guard, element) ==
    [pattern |-> pattern, guard |-> guard, element |-> element]

\* The routes in the order of the source; the children of the layout
\* route "/" are listed with its guard.
Routes ==
    << Route(<<"login">>, "public", Page("Login")),
       Route(<<"register">>, "public", Page("Register")),
       Route(<<>>, "protected", Navigate("/dashboard")),
       Route(<<"dashboard">>, "protected", Page("Dashboard")),
       Route(<<"prompts">>, "protected", Page("PromptList")),
       Route(<<"prompts", "new">>, "protected", Page("PromptEditor")),
       Route(<<"prompts", ":id">>, "protected", Page("PromptEditor")),
       Route(<<"prompts", ":id", "edit">>, "protected", Page("PromptEditor")),
       Route(<<"profile">>, "protected", Page("Profile")),
       Route(<<"*">>, "none", Navigate("/dashboard")) >>

\* A pattern matches a location segment by segment, ":id" matching any
\* segment; "*" matches every location.
Matches(pattern, loc) ==
    \/ pattern = <<"*">>
    \/ /\ Len(pattern) = Len(loc)
       /\ \A i \in 1..Len(loc) : pattern[i] = ":id" \/ pattern[i] = loc[i]

\* The rank of a pattern: a literal segment counts for more than a
\* parameter, and "*" for less than anything.
RECURSIVE Score(_)
Score(pattern) ==
    IF pattern = <<"*">> THEN -1
    ELSE IF pattern = <<>> THEN 0
    ELSE (IF pattern[1] = ":id" THEN 4 ELSE 11) + Score(Tail(pattern))

\* The route rendered for a location: the best ranked match, the first
\* in the source among equals.
MatchRoute(loc) ==
    LET matching == {i \in 1..Len(Routes) : Matches(Routes[i].pattern, loc)}
        best == CHOOSE i \in matching :
                    \A j \in matching :
                        \/ Score(Routes[j].pattern) < Score(Routes[i].pattern)
                        \/ Score(Routes[j].pattern) = Score(Routes[i].pattern) /\ i <= j
    IN  Routes[best]

\* What is on the screen at a location: the loading indicator, a page,
\* or a Navigate element, which redirects.
RouteElement(loc, u, l) ==
    LET r == MatchRoute(loc)
        guard == IF r.guard = "public" THEN PublicRoute(u, l)
                 ELSE IF r.guard = "protected" THEN ProtectedRoute(u, l)
                 ELSE Children
    IN  IF guard = Children THEN r.element ELSE guard

Rendered == RouteElement(location, user, loading)

\* The pages rendered inside Layout, which carries the navigation and the
\* logout button.
LayoutPages == {Page("Dashboard"), Page("PromptList"), Page("PromptEditor"),
                Page("Profile")}

(***************************************************************************)
(* The application: the router, the pages and the session store together.  *)
(* A Navigate element redirects before the next event is handled, so no    *)
(* handler of a page runs while a redirect is due.  `hops` counts the      *)
(* redirects made in a row and `entered` is the location the row began at. *)
(***************************************************************************)
storeVars == <<user, loading, storage, inflight, issued, sent, last, answered,
               beforeLogout>>

\* The locations a page may be loaded at: every route, a prompt id, and
\* paths no route names.
EnteredLocations ==
    { <<>>, <<"login">>, <<"register">>, <<"dashboard">>, <<"prompts">>,
      <<"prompts", "new">>, <<"prompts", "7">>, <<"prompts", "7", "edit">>,
      <<"profile">>, <<"analytics">>, <<"prompts", "7", "edit", "raw">> }

\* localStorage when the application is loaded.
AppStorages == { <<>>, ("user" :> Stringify(Alice)) }

\* A step other than a redirect starts a new row at the location it
\* leaves the router at.
Arrive(loc) ==
    /\ location' = loc
    /\ hops' = 0
    /\ entered' = loc

\* The page component after a step: the component that was mounted, with
\* the state v, while the same page is rendered; a new one otherwise.
Show(v) ==
    view' = IF RouteElement(location', user', loading') = Rendered
            THEN v ELSE FreshView

ViewStep(op, phase, form, cid, mounted) ==
    [op |-> op, phase |-> phase, form |-> form, cid |-> cid, mounted |-> mounted,
     pre |-> [view |-> view, location |-> location, sent |-> sent]]

\* A step in which no handler of Login, Register or Profile ran.
Elsewhere ==
    /\ Show(view)
    /\ vlast' = NoViewStep

\* The effect of a rendered <Navigate to=... replace />.
Redirect ==
    /\ Rendered.el = "Navigate"
    /\ hops < MaxHops
    /\ location' = ParsePath(Rendered.to)
    /\ hops' = hops + 1
    /\ UNCHANGED <<entered, storeVars, themeVars, leafVars>>
    /\ Elsewhere

\* The initialisation effect of AuthProvider, wherever the router is.
AppInitialize ==
    /\ Initialize
    /\ Arrive(location)
    /\ Elsewhere

\* Layout: a navigation item or the new-prompt button.
LayoutNavigate(to) ==
    /\ Rendered \in LayoutPages
    /\ Arrive(ParsePath(to))
    /\ UNCHANGED <<storeVars, themeVars, leafVars>>
    /\ Elsewhere

\* Layout: handleLogout.
HandleLogout ==
    /\ Rendered \in LayoutPages
    /\ Logout
    /\ Arrive(ParsePath("/login"))
    /\ Elsewhere

\* Dashboard: a quick action.
DashboardQuickAction(to) ==
    /\ Rendered = Page("Dashboard")
    /\ Arrive(ParsePath(to))
    /\ UNCHANGED <<storeVars, themeVars, leafVars>>
    /\ Elsewhere

\* PromptList: handleEdit, handleView and the new-prompt buttons.
PromptListNavigate(loc) ==
    /\ Rendered = Page("PromptList")
    /\ Arrive(loc)
    /\ UNCHANGED <<storeVars, themeVars, leafVars>>
    /\ Elsewhere

\* PromptEditor: the back button, and handleSave once it has saved.
PromptEditorNavigate ==
    /\ Rendered = Page("PromptEditor")
    /\ Arrive(ParsePath("/prompts"))
    /\ UNCHANGED <<storeVars, themeVars, leafVars>>
    /\ Elsewhere

\* Login: the link to the registration page.
LoginLink ==
    /\ Rendered = Page("Login")
    /\ Arrive(ParsePath("/register"))
    /\ UNCHANGED <<storeVars, themeVars, leafVars>>
    /\ Elsewhere

\* Register: the link to the login page.
RegisterLink ==
    /\ Rendered = Page("Register")
    /\ Arrive(ParsePath("/login"))
    /\ UNCHANGED <<storeVars, themeVars, leafVars>>
    /\ Elsewhere

(***************************************************************************)
(* The pages Login, Register and Profile.  The text of a form field is the *)
(* sequence of its characters.  A handler that awaits a session operation  *)
(* is two steps, as the operation is: the second runs the operation's      *)
(* continuation and then the handler's, in the same task.  The handler's   *)
(* state updates are dropped when its component is no longer mounted; its  *)
(* navigate() is not.                                                      *)
(***************************************************************************)
\* The messages the pages set themselves.
FillAllFields == JStr("fill in all required fields")    \* Login:105, Register:69
LoginRetryLater == JStr("login failed, retry later")    \* Login:121

\* What the user may have typed into the login form.
LoginForms ==
    { [usernameOrEmail |-> <<"b", "o", "b">>, password |-> <<"p", "w", "1">>],
      [usernameOrEmail |-> <<>>, password |-> <<"p", "w", "1">>],
      [usernameOrEmail |-> <<"b", "o", "b">>, password |-> <<>>] }

\* A handler that shows its own message for every failure.
LoginContinuationOwnMessage(v, outcome) ==
    IF outcome.state = "rejected" \/ ~outcome.value.success
    THEN [view |-> [v EXCEPT !.error = LoginRetryLater, !.loading = FALSE], to |-> "none"]
    ELSE [view |-> [v EXCEPT !.loading = FALSE], to |-> "/dashboard"]

\* Login.handleSubmit from the answer of login() on: navigate on
\* success, the result's error otherwise, the handler's own message if
\* login() rejected; loading off in every case.
LoginContinuation(v, outcome) ==
    IF outcome.state = "rejected"
    THEN [view |-> [v EXCEPT !.error = LoginRetryLater, !.loading = FALSE], to |-> "none"]
    ELSE IF outcome.value.success
         THEN [view |-> [v EXCEPT !.loading = FALSE], to |-> "/dashboard"]
         ELSE [view |-> [v EXCEPT !.error = outcome.value.error, !.loading = FALSE],
               to |-> "none"]

\* Login.handleSubmit up to its await.  The submit button is disabled
\* while loading.
LoginHandleSubmit(form) ==
    /\ Rendered = Page("Login")
    /\ ~view.loading
    /\ IF form.usernameOrEmail = <<>> \/ form.password = <<>>
       THEN /\ view' = [view EXCEPT !.error = FillAllFields]
            /\ vlast' = ViewStep("Login.handleSubmit", "rejected", form, 0, TRUE)
            /\ UNCHANGED <<storeVars, themeVars, leafVars>>
       ELSE /\ LoginCall(form.usernameOrEmail, form.password)
            /\ view' = [view EXCEPT !.loading = TRUE, !.error = JStr(""),
                                    !.calls = @ \cup {issued + 1}]
            /\ vlast' = ViewStep("Login.handleSubmit", "submit", form, issued + 1, TRUE)
    /\ Arrive(location)

\* Login.handleSubmit from the answer on.
LoginAnswered(cid, r) ==
    LET k == LoginContinuation(view, LoginSettled(user, storage, r).result)
        mounted == Rendered = Page("Login") /\ cid \in view.calls
    IN  /\ LoginSettle(cid, r)
        /\ Arrive(IF k.to = "none" THEN location ELSE ParsePath(k.to))
        /\ Show(IF mounted THEN [k.view EXCEPT !.calls = @ \ {cid}] ELSE view)
        /\ vlast' = ViewStep("Login.handleSubmit", "answer", <<>>, cid, mounted)

\* Login.handleChange and Register.handleChange: typing clears the error.
\* The inputs are disabled while loading.
HandleChange ==
    /\ Rendered \in {Page("Login"), Page("Register")}
    /\ ~view.loading
    /\ view.error # JStr("")
    /\ view' = [view EXCEPT !.error = JStr("")]
    /\ vlast' = ViewStep("handleChange", "input", <<>>, 0, TRUE)
    /\ Arrive(location)
    /\ UNCHANGED <<storeVars, themeVars, leafVars>>

(***************************************************************************)
(* Register (pages/Register.jsx).                                          *)
(***************************************************************************)
Letters ==
    { "a", "b", "c", "d", "e", "f", "g", "h", "i", "j", "k", "l", "m", "n", "o", "p", "q", "r", "s", "t", "u", "v", "w", "x", "y", "z",
      "A", "B", "C", "D", "E", "F", "G", "H", "I", "J", "K", "L", "M", "N", "O", "P", "Q", "R", "S", "T", "U", "V", "W", "X", "Y", "Z" }
Digits == {"0", "1", "2", "3", "4", "5", "6", "7", "8", "9"}
Whitespace == {" ", "\t", "\n"}

UsernameTooShort == JStr("username needs at least 3 characters")   \* Register:75
InvalidEmail == JStr("enter a valid email address")                \* Register:82
PasswordTooWeak == JStr("password does not meet the requirements") \* Register:88
PasswordsDiffer == JStr("the two passwords differ")                \* Register:94
RegisterRetryLater == JStr("registration failed, retry later")     \* Register:116

\* regex.test(text) for a regex of one character class.
Test(class, text) == \E i \in 1..Len(text) : text[i] \in class

\* validatePassword: length, /[a-zA-Z]/, /\d/; its result is
\* Object.values(validation).every(Boolean).
PasswordValidation(password) ==
    [length |-> Len(password) >= 6,
     hasLetter |-> Test(Letters, password),
     hasNumber |-> Test(Digits, password)]

ValidatePassword(password) ==
    LET validation == PasswordValidation(password)
    IN  validation.length /\ validation.hasLetter /\ validation.hasNumber

\* [^\s@]+ over the characters from..to of text.
Plain(text, from, to) ==
    /\ from <= to
    /\ \A i \in from..to : text[i] \notin Whitespace \cup {"@"}

\* /^[^\s@]+@[^\s@]+\.[^\s@]+$/.test(email)
EmailRegexTest(email) ==
    \E at, dot \in 1..Len(email) :
        /\ email[at] = "@"
        /\ email[dot] = "."
        /\ Plain(email, 1, at - 1)
        /\ Plain(email, at + 1, dot - 1)
        /\ Plain(email, dot + 1, Len(email))

\* The checks with the email examined before the length of the username.
RegisterErrorEmailFirst(form) ==
    IF form.username = <<>> \/ form.email = <<>> \/ form.password = <<>>
    THEN FillAllFields
    ELSE IF ~EmailRegexTest(form.email) THEN InvalidEmail
    ELSE IF Len(form.username) < 3 THEN UsernameTooShort
    ELSE IF ~ValidatePassword(form.password) THEN PasswordTooWeak
    ELSE IF form.password # form.confirmPassword THEN PasswordsDiffer
    ELSE JStr("")

\* The checks of Register.handleSubmit in their order: the error of the
\* first that fails, the empty string when all pass.
RegisterError(form) ==
    IF form.username = <<>> \/ form.email = <<>> \/ form.password = <<>>
    THEN FillAllFields
    ELSE IF Len(form.username) < 3 THEN UsernameTooShort
    ELSE IF ~EmailRegexTest(form.email) THEN InvalidEmail
    ELSE IF ~ValidatePassword(form.password) THEN PasswordTooWeak
    ELSE IF form.password # form.confirmPassword THEN PasswordsDiffer
    ELSE JStr("")

\* What the user may have typed into the registration form.
RegisterForms ==
    { [username |-> <<"b", "o", "b">>, email |-> <<"b", "@", "c", ".", "d">>, password |-> <<"p", "a", "s", "s", "1", "2">>,
       confirmPassword |-> <<"p", "a", "s", "s", "1", "2">>, displayName |-> <<"B", "o">>],
      [username |-> <<"b", "o", "b">>, email |-> <<"b", "@", "c", ".", "d">>, password |-> <<"p", "a", "s", "s", "1", "2">>,
       confirmPassword |-> <<"p", "a", "s", "s", "1", "2">>, displayName |-> <<>>],
      [username |-> <<>>, email |-> <<"b", "@", "c", ".", "d">>, password |-> <<"p", "a", "s", "s", "1", "2">>,
       confirmPassword |-> <<"p", "a", "s", "s", "1", "2">>, displayName |-> <<"B", "o">>],
      [username |-> <<"b", "o", "b">>, email |-> <<>>, password |-> <<"p", "a", "s", "s", "1", "2">>,
       confirmPassword |-> <<"p", "a", "s", "s", "1", "2">>, displayName |-> <<"B", "o">>],
      [username |-> <<"b", "o", "b">>, email |-> <<"b", "@", "c", ".", "d">>, password |-> <<>>,
       confirmPassword |-> <<>>, displayName |-> <<"B", "o">>],
      [username |-> <<"b", "o">>, email |-> <<"b", "@", "c", ".", "d">>, password |-> <<"p", "a", "s", "s", "1", "2">>,
       confirmPassword |-> <<"p", "a", "s", "s", "1", "2">>, displayName |-> <<"B", "o">>],
      [username |-> <<" ", " ", " ">>, email |-> <<"b", "@", "c", ".", "d">>, password |-> <<"p", "a", "s", "s", "1", "2">>,
       confirmPassword |-> <<"p", "a", "s", "s", "1", "2">>, displayName |-> <<"B", "o">>],
      [username |-> <<"b", "o">>, email |-> <<"b", "@", "c">>, password |-> <<"p", "w", "1">>,
       confirmPassword |-> <<"p", "w", "2">>, displayName |-> <<>>],
      [username |-> <<"b", "o", "b">>, email |-> <<"b", "@", "c">>, password |-> <<"p", "a", "s", "s", "1", "2">>,
       confirmPassword |-> <<"p", "a", "s", "s", "1", "2">>, displayName |-> <<"B", "o">>],
      [username |-> <<"b", "o", "b">>, email |-> <<"b", " ", "c", "@", "d", ".", "e">>, password |-> <<"p", "a", "s", "s", "1", "2">>,
       confirmPassword |-> <<"p", "a", "s", "s", "1", "2">>, displayName |-> <<"B", "o">>],
      [username |-> <<"b", "o", "b">>, email |-> <<"@", "c", ".", "d">>, password |-> <<"p", "a", "s", "s", "1", "2">>,
       confirmPassword |-> <<"p", "a", "s", "s", "1", "2">>, displayName |-> <<"B", "o">>],
      [username |-> <<"b", "o", "b">>, email |-> <<"b", "@", ".", "d">>, password |-> <<"p", "a", "s", "s", "1", "2">>,
       confirmPassword |-> <<"p", "a", "s", "s", "1", "2">>, displayName |-> <<"B", "o">>],
      [username |-> <<"b", "o", "b">>, email |-> <<"b", "@", "c", ".">>, password |-> <<"p", "a", "s", "s", "1", "2">>,
       confirmPassword |-> <<"p", "a", "s", "s", "1", "2">>, displayName |-> <<"B", "o">>],
      [username |-> <<"b", "o", "b">>, email |-> <<"b", "@", "@", "c", ".", "d">>, password |-> <<"p", "a", "s", "s", "1", "2">>,
       confirmPassword |-> <<"p", "a", "s", "s", "1", "2">>, displayName |-> <<"B", "o">>],
      [username |-> <<"b", "o", "b">>, email |-> <<"b", "@", "c", ".", ".", "d">>, password |-> <<"p", "a", "s", "s", "1", "2">>,
       confirmPassword |-> <<"p", "a", "s", "s", "1", "2">>, displayName |-> <<"B", "o">>],
      [username |-> <<"b", "o", "b">>, email |-> <<"b", "@", "c", ".", "d", " ">>, password |-> <<"p", "w", "1">>,
       confirmPassword |-> <<"p", "w", "1">>, displayName |-> <<"B", "o">>],
      [username |-> <<"b", "o", "b">>, email |-> <<"b", "@", "c", ".", "d">>, password |-> <<"p", "a", "s", "1", "2">>,
       confirmPassword |-> <<"p", "a", "s", "1", "2">>, displayName |-> <<"B", "o">>],
      [username |-> <<"b", "o", "b">>, email |-> <<"b", "@", "c", ".", "d">>, password |-> <<"p", "a", "s", "s", "w", "d">>,
       confirmPassword |-> <<"p", "a", "s", "s", "w", "d">>, displayName |-> <<"B", "o">>],
      [username |-> <<"b", "o", "b">>, email |-> <<"b", "@", "c", ".", "d">>, password |-> <<"1", "2", "3", "4", "5", "6">>,
       confirmPassword |-> <<"1", "2", "3", "4", "5", "6">>, displayName |-> <<"B", "o">>],
      [username |-> <<"b", "o", "b">>, email |-> <<"b", "@", "c", ".", "d">>, password |-> <<"p", "a", "s", "s", "1">>,
       confirmPassword |-> <<"p", "a", "s", "s", "1", "2">>, displayName |-> <<"B", "o">>],
      [username |-> <<"b", "o", "b">>, email |-> <<"b", "@", "c", ".", "d">>, password |-> <<"p", "a", "s", "s", "1", "2">>,
       confirmPassword |-> <<"p", "a", "s", "s", "1", "3">>, displayName |-> <<"B", "o">>],
      [username |-> <<"b", "o", "b">>, email |-> <<"b", "@", "c", ".", "d">>, password |-> <<"p", "a", "s", "s", "1", "2">>,
       confirmPassword |-> <<>>, displayName |-> <<"B", "o">>],
      [username |-> <<"b", "o", "b">>, email |-> <<"b", "@", "c", ".", "d">>, password |-> <<"P", "A", "S", "S", "1", "2">>,
       confirmPassword |-> <<"p", "a", "s", "s", "1", "2">>, displayName |-> <<"B", "o">>] }

RegisterContinuation(v, outcome) ==
    IF outcome.state = "rejected"
    THEN [view |-> [v EXCEPT !.error = RegisterRetryLater, !.loading = FALSE],
          to |-> "none"]
    ELSE IF outcome.value.success
         THEN [view |-> [v EXCEPT !.loading = FALSE], to |-> "/dashboard"]
         ELSE [view |-> [v EXCEPT !.error = outcome.value.error, !.loading = FALSE],
               to |-> "none"]

\* Register.handleSubmit up to its await.
RegisterHandleSubmit(form) ==
    /\ Rendered = Page("Register")
    /\ ~view.loading
    /\ IF RegisterError(form) # JStr("")
       THEN /\ view' = [view EXCEPT !.error = RegisterError(form)]
            /\ vlast' = ViewStep("Register.handleSubmit", "rejected", form, 0, TRUE)
            /\ UNCHANGED <<storeVars, themeVars, leafVars>>
       ELSE /\ RegisterCall(form.username, form.email, form.password,
                            IF form.displayName # <<>> THEN form.displayName
                            ELSE form.username)
            /\ view' = [view EXCEPT !.loading = TRUE, !.error = JStr(""),
                                    !.calls = @ \cup {issued + 1}]
            /\ vlast' = ViewStep("Register.handleSubmit", "submit", form, issued + 1, TRUE)
    /\ Arrive(location)

\* Register.handleSubmit from the answer on.
RegisterAnswered(cid, r) ==
    LET k == RegisterContinuation(view, RegisterSettled(user, storage, r).result)
        mounted == Rendered = Page("Register") /\ cid \in view.calls
    IN  /\ RegisterSettle(cid, r)
        /\ Arrive(IF k.to = "none" THEN location ELSE ParsePath(k.to))
        /\ Show(IF mounted THEN [k.view EXCEPT !.calls = @ \ {cid}] ELSE view)
        /\ vlast' = ViewStep("Register.handleSubmit", "answer", <<>>, cid, mounted)

(***************************************************************************)
(* Profile (pages/Profile.jsx).                                            *)
(***************************************************************************)
ProfileUpdated == JStr("profile updated")                          \* Profile:329
UpdateRetryLater == JStr("update failed, retry later")             \* Profile:335
NewPasswordsDiffer == JStr("the two new passwords differ")         \* Profile:344
NewPasswordTooShort == JStr("new password needs at least 6 characters") \* Profile:349
PasswordChanged == JStr("password changed")                        \* Profile:358
PasswordChangeRetryLater == JStr("password change failed, retry later") \* Profile:365

Message(type, content) == [type |-> type, content |-> content]

\* What the user may have typed into the password form; the button is
\* disabled while the old or the new password is empty.
PasswordForms ==
    { [oldPassword |-> <<"p", "w", "1">>, newPassword |-> <<"p", "a", "s", "s", "1", "2">>,
       confirmPassword |-> <<"p", "a", "s", "s", "1", "2">>],
      [oldPassword |-> <<"p", "w", "1">>, newPassword |-> <<"p", "a", "s", "s", "1", "2">>,
       confirmPassword |-> <<"p", "a", "s", "s">>],
      [oldPassword |-> <<"p", "w", "1">>, newPassword |-> <<"p", "w", "2">>,
       confirmPassword |-> <<"p", "w", "2">>],
      [oldPassword |-> <<"p", "w", "1">>, newPassword |-> <<"p", "w", "2">>,
       confirmPassword |-> <<>>] }

\* The edit button of the profile card.
StartEditing ==
    /\ Rendered = Page("Profile")
    /\ ~view.isEditing
    /\ view' = [view EXCEPT !.isEditing = TRUE]
    /\ vlast' = ViewStep("setIsEditing", "input", <<>>, 0, TRUE)
    /\ Arrive(location)
    /\ UNCHANGED <<storeVars, themeVars, leafVars>>

\* The change-password button of the security card.
StartChangingPassword ==
    /\ Rendered = Page("Profile")
    /\ ~view.isChangingPassword
    /\ view' = [view EXCEPT !.isChangingPassword = TRUE]
    /\ vlast' = ViewStep("setIsChangingPassword", "input", <<>>, 0, TRUE)
    /\ Arrive(location)
    /\ UNCHANGED <<storeVars, themeVars, leafVars>>

\* handleCancelEdit; its button is disabled while loading.
HandleCancelEdit ==
    /\ Rendered = Page("Profile")
    /\ view.isEditing
    /\ ~view.loading
    /\ view' = [view EXCEPT !.isEditing = FALSE, !.message = Message("", JStr(""))]
    /\ vlast' = ViewStep("handleCancelEdit", "input", <<>>, 0, TRUE)
    /\ Arrive(location)
    /\ UNCHANGED <<storeVars, themeVars, leafVars>>

\* handleCancelPasswordChange; its button is disabled while loading.
HandleCancelPasswordChange ==
    /\ Rendered = Page("Profile")
    /\ view.isChangingPassword
    /\ ~view.loading
    /\ view' = [view EXCEPT !.isChangingPassword = FALSE,
                            !.message = Message("", JStr(""))]
    /\ vlast' = ViewStep("handleCancelPasswordChange", "input", <<>>, 0, TRUE)
    /\ Arrive(location)
    /\ UNCHANGED <<storeVars, themeVars, leafVars>>

\* A handler without the `finally` clause: loading is switched off after
\* a success only.
ProfileUpdateContinuationNoFinally(v, outcome) ==
    IF outcome.state = "rejected"
    THEN [v EXCEPT !.message = Message("error", UpdateRetryLater)]
    ELSE IF outcome.value.success
         THEN [v EXCEPT !.message = Message("success", ProfileUpdated),
                        !.isEditing = FALSE, !.loading = FALSE]
         ELSE [v EXCEPT !.message = Message("error", outcome.value.error)]

\* handleProfileUpdate from the answer of updateUser() on.
ProfileUpdateContinuation(v, outcome) ==
    IF outcome.state = "rejected"
    THEN [v EXCEPT !.message = Message("error", UpdateRetryLater), !.loading = FALSE]
    ELSE IF outcome.value.success
         THEN [v EXCEPT !.message = Message("success", ProfileUpdated),
                        !.isEditing = FALSE, !.loading = FALSE]
         ELSE [v EXCEPT !.message = Message("error", outcome.value.error),
                        !.loading = FALSE]

\* handleProfileUpdate up to its await.  The save button is rendered
\* while editing and is disabled while loading.  With no `user` to read
\* the id of, updateUser() returns its failure without a request and the
\* handler goes on at once.
HandleProfileUpdate(profileData) ==
    /\ Rendered = Page("Profile")
    /\ view.isEditing
    /\ ~view.loading
    /\ UpdateUserCall(profileData)
    /\ LET began == [view EXCEPT !.loading = TRUE, !.message = Message("", JStr(""))]
       IN  IF PropThrows(user)
           THEN view' = ProfileUpdateContinuation(
                            began, UpdateUserCatch(user, storage, TypeError).result)
           ELSE view' = [began EXCEPT !.calls = @ \cup {issued + 1}]
    /\ vlast' = ViewStep("Profile.handleProfileUpdate", "submit", profileData,
                         issued + 1, TRUE)
    /\ Arrive(location)

\* handleProfileUpdate from the answer on.
ProfileUpdateAnswered(cid, r) ==
    LET mounted == Rendered = Page("Profile") /\ cid \in view.calls
        after == ProfileUpdateContinuation(view, UpdateUserSettled(user, storage, r).result)
    IN  /\ UpdateUserSettle(cid, r)
        /\ Arrive(location)
        /\ Show(IF mounted THEN [after EXCEPT !.calls = @ \ {cid}] ELSE view)
        /\ vlast' = ViewStep("Profile.handleProfileUpdate", "answer", <<>>, cid, mounted)

\* The checks of handlePasswordChange: the error of the first that fails.
PasswordChangeError(form) ==
    IF form.newPassword # form.confirmPassword THEN NewPasswordsDiffer
    ELSE IF Len(form.newPassword) < 6 THEN NewPasswordTooShort
    ELSE JStr("")

\* handlePasswordChange from the answer of changePassword() on.
PasswordChangeContinuation(v, outcome) ==
    IF outcome.state = "rejected"
    THEN [v EXCEPT !.message = Message("error", PasswordChangeRetryLater),
                   !.loading = FALSE]
    ELSE IF outcome.value.success
         THEN [v EXCEPT !.message = Message("success", PasswordChanged),
                        !.isChangingPassword = FALSE, !.loading = FALSE]
         ELSE [v EXCEPT !.message = Message("error", outcome.value.error),
                        !.loading = FALSE]

\* handlePasswordChange up to its await.
HandlePasswordChange(form) ==
    /\ Rendered = Page("Profile")
    /\ view.isChangingPassword
    /\ ~view.loading /\ form.oldPassword # <<>> /\ form.newPassword # <<>>
    /\ IF PasswordChangeError(form) # JStr("")
       THEN /\ view' = [view EXCEPT !.message = Message("error", PasswordChangeError(form))]
            /\ vlast' = ViewStep("Profile.handlePasswordChange", "rejected", form, 0, TRUE)
            /\ UNCHANGED <<storeVars, themeVars, leafVars>>
       ELSE /\ ChangePasswordCall(form.oldPassword, form.newPassword)
            /\ LET began == [view EXCEPT !.loading = TRUE,
                                         !.message = Message("", JStr(""))]
               IN  IF PropThrows(user)
                   THEN view' = PasswordChangeContinuation(
                                    began,
                                    ChangePasswordCatch(user, storage, TypeError).result)
                   ELSE view' = [began EXCEPT !.calls = @ \cup {issued + 1}]
            /\ vlast' = ViewStep("Profile.handlePasswordChange", "submit", form,
                                 issued + 1, TRUE)
    /\ Arrive(location)

\* handlePasswordChange from the answer on.
PasswordChangeAnswered(cid, r) ==
    LET mounted == Rendered = Page("Profile") /\ cid \in view.calls
        after == PasswordChangeContinuation(
                     view, ChangePasswordSettled(user, storage, r).result)
    IN  /\ ChangePasswordSettle(cid, r)
        /\ Arrive(location)
        /\ Show(IF mounted THEN [after EXCEPT !.calls = @ \ {cid}] ELSE view)
        /\ vlast' = ViewStep("Profile.handlePasswordChange", "answer", <<>>, cid, mounted)

\* The registration forms submitted where the whole application runs: one
\* that passes every check, with and without a display name, and one
\* that does not.
AppRegisterForms ==
    {form \in RegisterForms :
        /\ form.username = <<"b", "o", "b">>
        /\ form.email = <<"b", "@", "c", ".", "d">>
        /\ form.password = <<"p", "a", "s", "s", "1", "2">>
        /\ form.confirmPassword \in {form.password, <<>>}}

\* The answers given where the pages run: success, a refusal with the
\* server's message, and a transport failure.
AppIdentityOutcomes ==
    { Resolve(TRUE, Bob, JUndef), Resolve(FALSE, JUndef, JStr("bad credentials")),
      Reject(FALSE, JUndef) }

AppFlagOutcomes ==
    { Resolve(TRUE, JUndef, JUndef), Resolve(FALSE, JUndef, JStr("bad credentials")) }

\* The application is loaded at the root path or at the login page,
\* signed out or with a stored identity.
AppInit ==
    /\ SessionConstructed
    /\ ThemeConstructed
    /\ LeavesConstructed
    /\ prefersDark = FALSE
    /\ \E saved \in AppStorages : storage = saved
    /\ \E loc \in {<<>>, <<"login">>} : location = loc /\ entered = loc
    /\ hops = 0
    /\ PagesConstructed

\* The pages that call the session store, and the navigation between
\* them.
AppNext ==
    \/ Redirect
    \/ AppInitialize
    \/ \E to \in {"/dashboard", "/profile"} : LayoutNavigate(to)
    \/ HandleLogout
    \/ LoginLink
    \/ RegisterLink
    \/ HandleChange
    \/ \E form \in LoginForms : LoginHandleSubmit(form)
    \/ \E cid \in 1..MaxCalls, r \in AppIdentityOutcomes : LoginAnswered(cid, r)
    \/ \E form \in AppRegisterForms : RegisterHandleSubmit(form)
    \/ \E cid \in 1..MaxCalls, r \in AppIdentityOutcomes : RegisterAnswered(cid, r)
    \/ StartEditing
    \/ StartChangingPassword
    \/ HandleCancelEdit
    \/ HandleCancelPasswordChange
    \/ \E profileData \in Patches : HandleProfileUpdate(profileData)
    \/ \E cid \in 1..MaxCalls, r \in AppIdentityOutcomes : ProfileUpdateAnswered(cid, r)
    \/ \E form \in PasswordForms : HandlePasswordChange(form)
    \/ \E cid \in 1..MaxCalls, r \in AppFlagOutcomes : PasswordChangeAnswered(cid, r)

AppSpec == AppInit /\ [][AppNext]_vars

\* The router by itself: the page loaded at any location over any stored
\* value, the session resolved, and every navigation of the source.
RouterInit ==
    /\ SessionConstructed
    /\ ThemeConstructed
    /\ LeavesConstructed
    /\ prefersDark = FALSE
    /\ \E saved \in SavedStorages : storage = saved
    /\ \E loc \in EnteredLocations : location = loc /\ entered = loc
    /\ hops = 0
    /\ PagesConstructed

RouterNext ==
    \/ Redirect
    \/ AppInitialize
    \/ \E to \in {"/dashboard", "/prompts", "/profile", "/prompts/new"} : LayoutNavigate(to)
    \/ HandleLogout
    \/ \E to \in {"/prompts/new", "/prompts", "/analytics"} : DashboardQuickAction(to)
    \/ \E loc \in {<<"prompts", "7", "edit">>, <<"prompts", "7">>, <<"prompts", "new">>} :
           PromptListNavigate(loc)
    \/ PromptEditorNavigate
    \/ LoginLink
    \/ RegisterLink

RouterSpec == RouterInit /\ [][RouterNext]_vars

\* The registration page by itself, signed out, with every form.
RegisterInit ==
    /\ SessionConstructed
    /\ ThemeConstructed
    /\ LeavesConstructed
    /\ prefersDark = FALSE
    /\ storage = <<>>
    /\ location = <<"register">> /\ entered = <<"register">>
    /\ hops = 0
    /\ PagesConstructed

RegisterNext ==
    \/ AppInitialize
    \/ HandleChange
    \/ \E form \in RegisterForms : RegisterHandleSubmit(form)
    \/ \E cid \in 1..MaxCalls, r \in IdentityOutcomes : RegisterAnswered(cid, r)

RegisterSpec == RegisterInit /\ [][RegisterNext]_vars

(***************************************************************************)
(* Properties.  Each is stated on the state right after a step, which      *)
(* `last` describes together with the state the step started from.         *)
(***************************************************************************)
IdentityOps == {"login", "register", "updateUser"}

\* The step just taken is the settlement of a call of op answered with an
\* envelope whose success field is b.
Answered(op, b) ==
    /\ last.op = op
    /\ last.phase = "settle"
    /\ last.response.kind = "resolve"
    /\ last.response.success = b

\* The step just taken is the settlement of a call of op whose request
\* was rejected.
RequestRejected(op) ==
    /\ last.op = op
    /\ last.phase = "settle"
    /\ last.response.kind = "reject"

\* C1: when a login call answered with success:true returns, the current
\* identity is the response's data, the 'user' key holds the JSON text of
\* that data (which parses back to it), and the result is
\* {success: true, user: data}.
C1_LoginSuccessAdoptsAndPersists ==
    Answered("login", TRUE) =>
        /\ user = last.response.data
        /\ HasItem(storage, "user")
        /\ storage["user"] = Stringify(last.response.data)
        /\ Parse(storage["user"]) = ParseOk(last.response.data)
        /\ last.result = Fulfilled(Ok(last.response.data))

\* A login answered with success:true replaced another identity.
C1_Witness ==
    /\ Answered("login", TRUE)
    /\ last.pre.user \in Identities
    /\ last.pre.user # last.response.data

\* C2: a login, register or updateUser call answered with success:false
\* makes no setUser and no write of the 'user' key: neither the step that
\* issues the request nor the step that handles the answer changes the
\* identity or the storage.
C2_RejectedAnswerLeavesIdentity ==
    \A op \in IdentityOps :
        (Answered(op, FALSE) \/ (last.op = op /\ last.phase = "call")) =>
            /\ user = last.pre.user
            /\ storage = last.pre.storage

\* A login was answered with success:false while an identity was current.
C2_Witness ==
    /\ Answered("login", FALSE)
    /\ last.pre.user \in Identities
    /\ HasItem(last.pre.storage, "user")

\* C3: right after logout the identity is null and the 'user' key is
\* absent, whatever the state before; logout sends no request and returns
\* normally.
C3_LogoutClears ==
    last.op = "logout" =>
        /\ user = JNull
        /\ ~HasItem(storage, "user")
        /\ sent = last.pre.sent
        /\ last.result = Fulfilled(JUndef)

\* logout ran with an identity current and stored, after initialisation,
\* and with a request in flight.
C3_Witness ==
    /\ last.op = "logout"
    /\ last.pre.user \in Identities
    /\ HasItem(last.pre.storage, "user")
    /\ ~last.pre.loading
    /\ DOMAIN inflight # {}

\* logout ran before the initialisation effect, over a stored identity.
C3_WitnessWhileLoading ==
    /\ last.op = "logout"
    /\ last.pre.loading
    /\ HasItem(last.pre.storage, "user")

\* The 'user' key held, when the initialisation effect ran, a text that
\* JSON.parse rejects.
InitializedOverCorruptText ==
    /\ last.op = "initialize"
    /\ HasItem(last.pre.storage, "user")
    /\ ~Parse(last.pre.storage["user"]).ok

\* C4: if the 'user' key holds a text that does not parse as JSON when
\* the AuthProvider initialises, then afterwards the identity is null, the
\* 'user' key is removed, loading is false and no error escaped.
C4_CorruptValueDiscarded ==
    InitializedOverCorruptText =>
        /\ user = JNull
        /\ ~HasItem(storage, "user")
        /\ loading = FALSE
        /\ last.result.state # "rejected"

\* What the effect does do with an unparseable text: the identity is null,
\* loading is false, no error escapes, and the key is removed unless the
\* text is the empty string, which `if (savedUser)` takes for no value and
\* leaves in place.
C4_CorruptValueDiscardedUnlessEmpty ==
    InitializedOverCorruptText =>
        /\ user = JNull
        /\ loading = FALSE
        /\ last.result.state # "rejected"
        /\ IF Len(last.pre.storage["user"]) > 0
           THEN ~HasItem(storage, "user")
           ELSE storage = last.pre.storage

\* The effect ran over a non-empty unparseable text.
C4_Witness ==
    /\ InitializedOverCorruptText
    /\ Len(last.pre.storage["user"]) > 0

\* The effect ran over the empty string.
C4_WitnessEmpty ==
    /\ InitializedOverCorruptText
    /\ Len(last.pre.storage["user"]) = 0

\* C5: if the 'user' key holds the JSON text of an identity when the
\* AuthProvider initialises, then afterwards the identity is that identity
\* and loading is false; if the key is absent the identity is null and
\* loading is false all the same.
C5_StoredIdentityRestored ==
    last.op = "initialize" =>
        /\ loading = FALSE
        /\ \A u \in Identities :
              (HasItem(last.pre.storage, "user")
                  /\ last.pre.storage["user"] = Stringify(u)) => user = u
        /\ ~HasItem(last.pre.storage, "user") => user = JNull

\* The effect restored a stored identity.
C5_Witness ==
    /\ last.op = "initialize"
    /\ HasItem(last.pre.storage, "user")
    /\ last.pre.storage["user"] = Stringify(Alice)
    /\ user = Alice
    /\ loading = FALSE

\* The effect ran with the 'user' key absent.
C5_WitnessAbsent ==
    /\ last.op = "initialize"
    /\ ~HasItem(last.pre.storage, "user")
    /\ user = JNull

AsyncOps == {"login", "register", "updateUser", "changePassword"}

\* C6: login, register, updateUser and changePassword never reject: a call
\* that has returned, at its call (no current identity) or at the
\* settlement of its request (success:true, success:false or rejection),
\* has resolved with a result whose success field is true or false.
C6_AsyncOpsNeverReject ==
    last.op \in AsyncOps =>
        /\ last.result.state \in {"pending", "fulfilled"}
        /\ last.phase = "settle" => last.result.state = "fulfilled"
        /\ last.result.state = "fulfilled" => last.result.value.success \in BOOLEAN

\* updateUser was called with no current identity and resolved with a
\* failure result.
C6_Witness ==
    /\ last.op = "updateUser"
    /\ last.phase = "call"
    /\ last.pre.user = JNull
    /\ last.result.state = "fulfilled"
    /\ last.result.value.success = FALSE

\* A request was rejected and the call resolved with a failure result.
C6_WitnessRejected ==
    /\ RequestRejected("changePassword")
    /\ last.result.state = "fulfilled"
    /\ last.result.value.success = FALSE

\* The fallback message of each operation, as the source gives it.
FallbackOf(op) ==
    CASE op = "login" -> JStr("login failed")
      [] op = "register" -> JStr("registration failed")
      [] op = "updateUser" -> JStr("update failed")
      [] op = "changePassword" -> JStr("password change failed")

\* A message the server gave: a non-empty string.
Given(m) == m.type = "string" /\ m.s # ""

\* C7: the error of a failure result is the server's message when there
\* is one and the fallback otherwise: for a success:false answer,
\* response.message if non-empty, else the operation's fallback; for a
\* rejection (and for the TypeError of a call with no identity), the
\* rejection's response message if present, else the network-error
\* fallback.  login("alice", "wrong") answered {success: false, message:
\* "bad credentials"} returns {success: false, error: "bad credentials"}
\* and an absent identity stays absent.
C7_ErrorIsServerMessageOrFallback ==
    /\ \A op \in AsyncOps :
          /\ Answered(op, FALSE) =>
                last.result = Fulfilled(Fail(IF Given(last.response.message)
                                             THEN last.response.message
                                             ELSE FallbackOf(op)))
          /\ RequestRejected(op) =>
                last.result = Fulfilled(Fail(
                    IF last.response.hasResponse /\ Given(last.response.message)
                    THEN last.response.message
                    ELSE JStr("network error, retry later")))
          /\ (last.op = op /\ last.phase = "call" /\ last.result.state = "fulfilled") =>
                last.result = Fulfilled(Fail(JStr("network error, retry later")))
    /\ ( /\ Answered("login", FALSE)
         /\ last.request.body = [username_or_email |-> "alice", password |-> "wrong"]
         /\ last.response.message = JStr("bad credentials") ) =>
            /\ last.result = Fulfilled([success |-> FALSE,
                                        error |-> JStr("bad credentials")])
            /\ last.pre.user = JNull => user = JNull

\* login("alice", "wrong") was answered {success: false, message: "bad
\* credentials"} with no identity current.
C7_Witness ==
    /\ Answered("login", FALSE)
    /\ last.request.body = [username_or_email |-> "alice", password |-> "wrong"]
    /\ last.response.message = JStr("bad credentials")
    /\ last.pre.user = JNull
    /\ user = JNull
    /\ last.result.value.error = JStr("bad credentials")

\* changePassword was answered success:false with an empty message.
C7_WitnessFallback ==
    /\ Answered("changePassword", FALSE)
    /\ last.response.message = JStr("")
    /\ last.result.value.error = JStr("password change failed")

\* C8: when the request of login, register or updateUser is rejected, the
\* call returns a failure result and its settlement leaves the identity
\* and the storage as they were.
C8_RejectedRequestMutatesNothing ==
    \A op \in IdentityOps :
        RequestRejected(op) =>
            /\ last.result.state = "fulfilled"
            /\ last.result.value.success = FALSE
            /\ user = last.pre.user
            /\ storage = last.pre.storage

\* The request of updateUser failed in transport with an identity current.
C8_Witness ==
    /\ RequestRejected("updateUser")
    /\ ~last.response.hasResponse
    /\ last.pre.user \in Identities
    /\ HasItem(last.pre.storage, "user")

\* C9: a step of login, register or updateUser that changes the identity
\* also writes that identity to the 'user' key and returns success with
\* it; a step that returns failure changed neither; and no key other than
\* 'user' is written or deleted.
C9_NoPartialSuccess ==
    last.op \in IdentityOps =>
        /\ user # last.pre.user =>
              /\ HasItem(storage, "user")
              /\ storage["user"] = Stringify(user)
              /\ last.result = Fulfilled(Ok(user))
        /\ (last.result.state = "fulfilled" /\ ~last.result.value.success) =>
              /\ user = last.pre.user
              /\ storage = last.pre.storage
        /\ RemoveItem(storage, "user") = RemoveItem(last.pre.storage, "user")

\* updateUser replaced the identity while the 'theme' key was stored.
C9_Witness ==
    /\ Answered("updateUser", TRUE)
    /\ user # last.pre.user
    /\ HasItem(storage, "theme")

\* C10: when a register call answered with success:true returns, the
\* current identity is the response's data and the 'user' key holds its
\* JSON text, as after a successful login, and the result carries it.
C10_RegisterIsImplicitLogin ==
    Answered("register", TRUE) =>
        /\ user = last.response.data
        /\ HasItem(storage, "user")
        /\ storage["user"] = Stringify(last.response.data)
        /\ Parse(storage["user"]) = ParseOk(last.response.data)
        /\ last.result = Fulfilled(Ok(last.response.data))
        /\ [user |-> user, storage |-> storage, result |-> last.result]
              = LoginSettled(last.pre.user, last.pre.storage, last.response)

\* A register answered with success:true signed the new user in, with no
\* identity current before.
C10_Witness ==
    /\ Answered("register", TRUE)
    /\ last.pre.user = JNull
    /\ ~HasItem(last.pre.storage, "user")
    /\ user \in Identities

\* { ...u, ...body }: the identity u with the submitted fields laid over it.
MergePatch(u, body) ==
    JObj([k \in DOMAIN u.fields \cup DOMAIN body |->
            IF k \in DOMAIN body THEN JStr(body[k]) ELSE u.fields[k]])

\* C11: an updateUser call made with a current identity sends its request
\* to /users/<id of the identity current at the call>, and once it is
\* answered with success:true the identity and the 'user' key are exactly
\* the server's representation (the result carries it too), whatever the
\* previous identity and the submitted fields were.
C11_UpdateReplacesWholesale ==
    /\ (last.op = "updateUser" /\ last.phase = "call" /\ last.pre.user \in Identities) =>
          /\ last.result = Pending
          /\ last.cid \in DOMAIN inflight
          /\ inflight[last.cid].request = last.request
          /\ last.request.method = "PUT"
          /\ last.request.path = <<"users", last.pre.user.fields.id>>
    /\ Answered("updateUser", TRUE) =>
          /\ user = last.response.data
          /\ HasItem(storage, "user")
          /\ storage["user"] = Stringify(last.response.data)
          /\ last.result = Fulfilled(Ok(last.response.data))

\* updateUser was answered with a representation that is not the previous
\* identity with the submitted fields laid over it, and that was adopted.
C11_Witness ==
    /\ Answered("updateUser", TRUE)
    /\ last.pre.user \in Identities
    /\ last.request.path = <<"users", last.pre.user.fields.id>>
    /\ last.response.data # MergePatch(last.pre.user, last.request.body)
    /\ last.response.data # last.pre.user
    /\ user = last.response.data

\* C12: changePassword leaves the identity and the storage as they were at
\* both of its steps and in every outcome; answered with success:true it
\* returns {success: true} and nothing else.
C12_ChangePasswordLeavesIdentity ==
    last.op = "changePassword" =>
        /\ user = last.pre.user
        /\ storage = last.pre.storage
        /\ Answered("changePassword", TRUE) =>
              /\ last.result = Fulfilled([success |-> TRUE])
              /\ DOMAIN last.result.value = {"success"}

\* changePassword succeeded with an identity current and stored.
C12_Witness ==
    /\ Answered("changePassword", TRUE)
    /\ user \in Identities
    /\ HasItem(storage, "user")

\* changePassword failed in transport with an identity current.
C12_WitnessRejected ==
    /\ RequestRejected("changePassword")
    /\ user \in Identities

\* The last two settlements were updateUser calls answered with success.
TwoUpdatesAnswered ==
    /\ last.phase = "settle"
    /\ Len(answered) >= 2
    /\ \A i \in {Len(answered) - 1, Len(answered)} :
          answered[i].op = "updateUser" /\ answered[i].success

\* C17: no order is kept between updateUser calls: right after the later
\* of two successful answers has been handled, the identity and the 'user'
\* key are that answer's data, whichever of the two requests was issued
\* first.
C17_LastAnswerWins ==
    TwoUpdatesAnswered =>
        /\ user = answered[Len(answered)].data
        /\ HasItem(storage, "user")
        /\ storage["user"] = Stringify(answered[Len(answered)].data)

\* Two updateUser calls were in flight together; the second one issued
\* was answered first, and the answer to the first one issued, arriving
\* last with another identity, is what the store ends with.
C17_Witness ==
    /\ TwoUpdatesAnswered
    /\ answered[Len(answered)].cid < answered[Len(answered) - 1].cid
    /\ answered[Len(answered)].data # answered[Len(answered) - 1].data
    /\ user = answered[Len(answered)].data
    /\ user # answered[Len(answered) - 1].data
    /\ DOMAIN inflight = {}

\* What the two guards render in the current state.
Protected == ProtectedRoute(user, loading)
Public == PublicRoute(user, loading)

\* C13: once loading is false, ProtectedRoute renders its child exactly
\* when an identity is present and a redirect to /login when it is not;
\* it never renders its child while the identity is absent.
C13_ProtectedRouteNeedsIdentity ==
    /\ ~loading =>
          /\ (Protected = Children) <=> (user # JNull)
          /\ user = JNull => Protected = Navigate("/login")
    /\ user = JNull => Protected # Children

\* The identity went away (logout) under a resolved ProtectedRoute, which
\* now redirects to /login.
C13_Witness ==
    /\ ~loading
    /\ last.op = "logout"
    /\ last.pre.user \in Identities
    /\ Protected = Navigate("/login")

\* A resolved ProtectedRoute renders its child for a signed-in user.
C13_WitnessAllowed ==
    /\ ~loading
    /\ user \in Identities
    /\ Protected = Children

\* C14: once loading is false, PublicRoute redirects to /dashboard exactly
\* when an identity is present and renders its child when it is absent.
C14_PublicRouteRedirectsSignedIn ==
    ~loading =>
        /\ user # JNull => Public = Navigate("/dashboard")
        /\ user = JNull => Public = Children

\* A login succeeded under a resolved PublicRoute, which now redirects to
\* /dashboard.
C14_Witness ==
    /\ ~loading
    /\ Answered("login", TRUE)
    /\ last.pre.user = JNull
    /\ Public = Navigate("/dashboard")

\* C15: while loading is true both guards render the loading indicator
\* only, whatever the identity: no child and no redirect.
C15_GuardsWaitWhileLoading ==
    loading =>
        /\ Protected = LoadingIndicator
        /\ Public = LoadingIndicator

\* The guards wait although an identity is already current (a login
\* settled before the initialisation effect ran).
C15_Witness ==
    /\ loading
    /\ user \in Identities
    /\ Protected = LoadingIndicator
    /\ Public = LoadingIndicator

\* The state of a guard instance, from the element it renders.
GuardState(element) ==
    CASE element = LoadingIndicator -> "Pending"
      [] element = Children -> "Allowed"
      [] OTHER -> "Redirected"

\* C16: a guard leaves Pending when loading becomes false, and a guard
\* that has reached Allowed or Redirected keeps that decision at every
\* later step.
C16_GuardDecidesOnce ==
    [][ /\ (GuardState(Protected) = "Pending" /\ ~loading') =>
              GuardState(Protected') # "Pending"
        /\ (GuardState(Public) = "Pending" /\ ~loading') =>
              GuardState(Public') # "Pending"
        /\ GuardState(Protected) # "Pending" =>
              GuardState(Protected') = GuardState(Protected)
        /\ GuardState(Public) # "Pending" =>
              GuardState(Public') = GuardState(Public) ]_vars

\* C16 as the guards behave: a guard is Pending exactly while loading is
\* true, leaves Pending when loading becomes false and never returns to
\* it; from then on its state follows the identity at every step, Allowed
\* or Redirected as the identity is present or absent.
C16_GuardFollowsIdentity ==
    [][ /\ (GuardState(Protected) = "Pending" /\ ~loading') =>
              GuardState(Protected') # "Pending"
        /\ (GuardState(Public) = "Pending" /\ ~loading') =>
              GuardState(Public') # "Pending"
        /\ GuardState(Protected) # "Pending" => GuardState(Protected') # "Pending"
        /\ GuardState(Public) # "Pending" => GuardState(Public') # "Pending"
        /\ GuardState(Protected') =
              (IF loading' THEN "Pending"
               ELSE IF user' # JNull THEN "Allowed" ELSE "Redirected")
        /\ GuardState(Public') =
              (IF loading' THEN "Pending"
               ELSE IF user' # JNull THEN "Redirected" ELSE "Allowed") ]_vars

\* A resolved PublicRoute that rendered its child redirects after the
\* answer to an updateUser request, sent before a logout, restored an
\* identity: a second transition of the same guard.
C16_Witness ==
    /\ Answered("updateUser", TRUE)
    /\ GuardState(PublicRoute(last.pre.user, last.pre.loading)) = "Allowed"
    /\ GuardState(Public) = "Redirected"

\* A resolved ProtectedRoute that rendered its child redirects after logout.
C16_WitnessLogout ==
    /\ last.op = "logout"
    /\ GuardState(ProtectedRoute(last.pre.user, last.pre.loading)) = "Allowed"
    /\ GuardState(Protected) = "Redirected"

(***************************************************************************)
(* Properties of the theme store, under ThemeSpec.  `tlast` describes the  *)
(* step just taken and the one before it.                                  *)
(***************************************************************************)
\* The last two steps were toggleTheme, the first of them from theme t.
ToggledTwiceFrom(t) ==
    /\ tlast.op = "toggleTheme"
    /\ tlast.prevOp = "toggleTheme"
    /\ tlast.prevPre.theme = t

\* C18: from a theme of light or dark, two toggleTheme calls in a row
\* bring the theme back to the value it had, and the 'theme' key and the
\* theme class of the document root hold that value.
C18_ToggleTwiceRestores ==
    \A t \in {Light, Dark} :
        ToggledTwiceFrom(t) =>
            /\ theme = t
            /\ tlast.pre.theme # t
            /\ HasItem(storage, "theme")
            /\ storage["theme"] = t
            /\ rootClasses \cap {Light, Dark} = {t}

\* toggleTheme ran twice from the dark theme, through light.
C18_Witness ==
    /\ ToggledTwiceFrom(Dark)
    /\ tlast.pre.theme = Light
    /\ theme = Dark

\* toggleTheme ran twice from the initial light theme, with no 'theme'
\* key stored before.
C18_WitnessFromLight ==
    /\ ToggledTwiceFrom(Light)
    /\ ~HasItem(tlast.prevPre.storage, "theme")
    /\ theme = Light

\* C19: in every reachable state of the theme store, after initialisation
\* from any stored 'theme' value and after any toggleTheme and setTheme
\* calls, the theme is 'light' or 'dark'.
C19_ThemeIsLightOrDark ==
    theme \in {Light, Dark}

\* Where the theme is neither: only right after the initialisation effect
\* adopted such a value from the 'theme' key; every toggleTheme and
\* setTheme leaves the theme light or dark.
C19_OtherThemeOnlyFromStorage ==
    theme \notin {Light, Dark} =>
        /\ tlast.op = "initialize"
        /\ HasItem(tlast.pre.storage, "theme")
        /\ theme = tlast.pre.storage["theme"]

\* The effect adopted a stored theme that is neither light nor dark.
C19_WitnessOtherTheme ==
    /\ tlast.op = "initialize"
    /\ theme = <<Word("blue")>>
    /\ rootClasses = {<<Word("blue")>>}

\* C20: the initialisation effect resolves the theme as the stored
\* 'theme' value when there is one and as the environment's preference
\* otherwise, and puts the resolved value on the document root; with
\* nothing stored and a dark preference the theme is dark.
C20_InitResolvesStoredOrSystem ==
    tlast.op = "initialize" =>
        /\ theme = (IF HasItem(tlast.pre.storage, "theme")
                    THEN tlast.pre.storage["theme"]
                    ELSE SystemTheme(prefersDark))
        /\ theme \in rootClasses
        /\ rootClasses \cap {Light, Dark} \subseteq {theme}
        /\ (~HasItem(tlast.pre.storage, "theme") /\ prefersDark) => theme = Dark

\* C20 as the effect behaves: the stored value is taken when it is a
\* non-empty string; with the key absent or holding the empty string the
\* theme is the environment's preference.  The resolved value is put on
\* the document root and nothing is written to storage.
C20_InitResolvesNonEmptyStoredOrSystem ==
    tlast.op = "initialize" =>
        /\ theme = (IF HasItem(tlast.pre.storage, "theme")
                       /\ tlast.pre.storage["theme"] # <<>>
                    THEN tlast.pre.storage["theme"]
                    ELSE IF prefersDark THEN Dark ELSE Light)
        /\ theme \in rootClasses
        /\ rootClasses \cap {Light, Dark} \subseteq {theme}
        /\ storage = tlast.pre.storage
        /\ (~HasItem(tlast.pre.storage, "theme") /\ prefersDark) => theme = Dark

\* The effect ran with no stored preference and a dark environment.
C20_Witness ==
    /\ tlast.op = "initialize"
    /\ ~HasItem(tlast.pre.storage, "theme")
    /\ prefersDark
    /\ theme = Dark
    /\ Dark \in rootClasses

\* The effect ran over a stored empty string and took the environment's
\* preference.
C20_WitnessEmpty ==
    /\ tlast.op = "initialize"
    /\ HasItem(tlast.pre.storage, "theme")
    /\ tlast.pre.storage["theme"] = <<>>
    /\ theme = SystemTheme(prefersDark)

\* The effect took a stored value against the environment's preference.
C20_WitnessStored ==
    /\ tlast.op = "initialize"
    /\ HasItem(tlast.pre.storage, "theme")
    /\ tlast.pre.storage["theme"] = Light
    /\ prefersDark
    /\ theme = Light

\* The value the last toggleTheme or setTheme call was to establish.
NewTheme ==
    IF tlast.op = "setTheme" THEN tlast.arg ELSE Toggled(tlast.pre.theme)

\* C21: right after a toggleTheme or a setTheme(value) call the theme,
\* the 'theme' key and the theme class of the document root all are the
\* new value, and of the classes 'light' and 'dark' the root carries
\* exactly one.
C21_ThemeStorageAndRootAgree ==
    tlast.op \in {"toggleTheme", "setTheme"} =>
        /\ theme = NewTheme
        /\ HasItem(storage, "theme")
        /\ storage["theme"] = NewTheme
        /\ NewTheme \in rootClasses
        /\ Cardinality(rootClasses \cap {Light, Dark}) = 1

\* setTheme('light') ran while the dark theme was stored and applied.
C21_Witness ==
    /\ tlast.op = "setTheme"
    /\ tlast.arg = Light
    /\ tlast.pre.theme = Dark
    /\ Dark \in tlast.pre.rootClasses
    /\ rootClasses = {Light}

\* toggleTheme ran over a theme adopted from storage that is neither
\* light nor dark: that class stays on the root beside the new one.
C21_WitnessAfterOtherTheme ==
    /\ tlast.op = "toggleTheme"
    /\ tlast.pre.theme = <<Word("blue")>>
    /\ theme = Light
    /\ rootClasses = {<<Word("blue")>>, Light}

(***************************************************************************)
(* Requests and calls, under Spec.                                         *)
(***************************************************************************)
\* The call of the last step could read the id of the identity: always
\* for login and register, which read none, and for updateUser and
\* changePassword when `user` is not null.
RequestReachable ==
    last.op \in {"login", "register"} \/ ~PropThrows(last.pre.user)

\* C22: the call step of login, register, updateUser and changePassword
\* sends exactly one request (for the latter two with an identity
\* current) and never more than one; the step that handles the answer
\* sends none whatever the answer was, and ends the call; so every request
\* sent is in flight or was answered once, and there are no more requests
\* than invocations.
C22_OneRequestPerCall ==
    /\ (last.op \in AsyncOps /\ last.phase = "call") =>
          /\ sent <= last.pre.sent + 1
          /\ RequestReachable =>
                /\ sent = last.pre.sent + 1
                /\ last.cid \in DOMAIN inflight
                /\ inflight[last.cid].request = last.request
    /\ (last.op \in AsyncOps /\ last.phase = "settle") =>
          /\ sent = last.pre.sent
          /\ last.cid \notin DOMAIN inflight
          /\ last.result.state = "fulfilled"
    /\ sent = Cardinality(DOMAIN inflight) + Len(answered)
    /\ sent <= issued
    /\ \A i, j \in 1..Len(answered) : answered[i].cid = answered[j].cid => i = j

\* A login failed in transport and a second login was invoked and
\* answered: two invocations, two requests, both ended.
C22_Witness ==
    /\ Len(answered) = 2
    /\ answered[1].op = "login" /\ ~answered[1].success
    /\ last.op = "login" /\ last.phase = "settle"
    /\ sent = 2 /\ issued = 2
    /\ inflight = <<>>

\* updateUser was invoked with no identity: its call sent no request.
C22_WitnessNoIdentity ==
    /\ last.op = "updateUser" /\ last.phase = "call"
    /\ last.pre.user = JNull
    /\ sent = last.pre.sent
    /\ last.result.state = "fulfilled"

\* C24: once logout has run, the identity and the 'user' key stay absent
\* until a login or register call made after that logout succeeds: the
\* answer to a call that was in flight when logout ran restores neither,
\* and while both are absent only the settlement of a login or register
\* call made after the logout brings an identity in.
C24_LogoutOutlivesCallsInFlight ==
    [][ /\ \A cid \in beforeLogout :
              cid \notin DOMAIN inflight' =>
                  /\ user = JNull => user' = JNull
                  /\ ~HasItem(storage, "user") => ~HasItem(storage', "user")
        /\ (user = JNull /\ ~HasItem(storage, "user")
               /\ (user' # JNull \/ HasItem(storage', "user"))) =>
              \E cid \in DOMAIN inflight \ beforeLogout :
                  /\ cid \notin DOMAIN inflight'
                  /\ inflight[cid].op \in {"login", "register"} ]_vars

\* The answer to an updateUser call made before logout arrived after it
\* and was adopted and stored: signed out, and signed in again by no one.
C24_WitnessRestored ==
    /\ last.op = "updateUser" /\ last.phase = "settle"
    /\ last.pre.user = JNull
    /\ ~HasItem(last.pre.storage, "user")
    /\ user \in Identities
    /\ HasItem(storage, "user")

\* C25: once the initialisation effect has run, in every state between
\* steps the identity and the storage agree: the 'user' key is absent
\* exactly when `user` is null, and otherwise holds JSON.stringify(user);
\* for every initial content of the key and every sequence of outcomes.
C25_IdentityAndStorageAgree ==
    loading = FALSE =>
        /\ user = JNull <=> ~HasItem(storage, "user")
        /\ user # JNull => storage["user"] = Stringify(user)

\* Where the two disagree although no call was ever made: `user` is null
\* and the key still holds a text the effect neither adopted as an
\* identity nor removed.
C25_WitnessStoredNull ==
    /\ loading = FALSE
    /\ issued = 0
    /\ last.op = "initialize"
    /\ user = JNull
    /\ HasItem(storage, "user")
    /\ storage["user"] = <<Word("null")>>

(***************************************************************************)
(* Properties of the router, under RouterSpec.                             *)
(***************************************************************************)
\* The locations no route but "*" matches.
UnknownLocations == {loc \in EnteredLocations : MatchRoute(loc).pattern = <<"*">>}

\* C28: with the session resolved, every row of redirects ends, after two
\* redirects at most and well before the model stops following it: with
\* no identity at the login or the registration page, with an identity at
\* a page inside the layout, and at /dashboard when the row began at "/",
\* at a path no route names or at a public path.
C28_RedirectsTerminate ==
    loading = FALSE =>
        /\ hops <= 2
        /\ Rendered.el \in {"Navigate", "Page"}
        /\ Rendered.el = "Page" =>
              /\ ~Truthy(user) => Rendered \in {Page("Login"), Page("Register")}
              /\ Truthy(user) => Rendered \in LayoutPages
              /\ (Truthy(user)
                    /\ entered \in UnknownLocations
                            \cup {<<>>, <<"login">>, <<"register">>}) =>
                    location = <<"dashboard">>

\* An unknown path was followed, signed out, through /dashboard to the
\* login page.
C28_Witness ==
    /\ loading = FALSE
    /\ user = JNull
    /\ entered = <<"analytics">>
    /\ hops = 2
    /\ Rendered = Page("Login")

\* The dashboard's statistics action led, signed in, back to the dashboard.
C28_WitnessSignedIn ==
    /\ loading = FALSE
    /\ user = Alice
    /\ entered = <<"analytics">>
    /\ hops = 1
    /\ last.op = "initialize"
    /\ Rendered = Page("Dashboard")

(***************************************************************************)
(* Properties of the registration form, under RegisterSpec.                *)
(***************************************************************************)
\* local@domain.tld with no whitespace: no whitespace anywhere, one "@",
\* something before it, and after it a "." with something on both sides.
WellFormedEmail(email) ==
    /\ \A i \in 1..Len(email) : email[i] \notin Whitespace
    /\ Cardinality({i \in 1..Len(email) : email[i] = "@"}) = 1
    /\ LET at == CHOOSE i \in 1..Len(email) : email[i] = "@"
       IN  /\ at > 1
           /\ \E dot \in (at + 2)..(Len(email) - 1) : email[dot] = "."

\* The client-side checks in the order of the claim, each with the error
\* it sets.
RegisterChecks(form) ==
    << [ok |-> form.username # <<>> /\ form.email # <<>> /\ form.password # <<>>,
        error |-> FillAllFields],
       [ok |-> Len(form.username) >= 3, error |-> UsernameTooShort],
       [ok |-> WellFormedEmail(form.email), error |-> InvalidEmail],
       [ok |-> /\ Len(form.password) >= 6
               /\ \E i \in 1..Len(form.password) : form.password[i] \in Letters
               /\ \E i \in 1..Len(form.password) : form.password[i] \in Digits,
        error |-> PasswordTooWeak],
       [ok |-> form.password = form.confirmPassword, error |-> PasswordsDiffer] >>

\* C27: the registration form calls register() exactly when every check
\* passes; otherwise it sends nothing and shows the error of the first
\* check that fails, in the order fields present, username length,
\* email, password strength, confirmation.  The request carries the
\* fields entered, with the username as display name when none was
\* entered.
C27_RegisterValidatesInOrder ==
    (vlast.op = "Register.handleSubmit" /\ vlast.phase \in {"submit", "rejected"}) =>
        LET form == vlast.form
            checks == RegisterChecks(form)
            failing == {i \in 1..Len(checks) : ~checks[i].ok}
            called == vlast.cid \in DOMAIN inflight /\ sent = vlast.pre.sent + 1
        IN  /\ called <=> failing = {}
            /\ failing # {} =>
                  /\ sent = vlast.pre.sent
                  /\ \E i \in failing :
                        /\ \A j \in failing : i <= j
                        /\ view.error = checks[i].error
            /\ called =>
                  /\ inflight[vlast.cid].op = "register"
                  /\ inflight[vlast.cid].request.body =
                        [username |-> form.username, email |-> form.email,
                         password |-> form.password,
                         display_name |-> IF form.displayName = <<>>
                                          THEN form.username ELSE form.displayName]

\* A form with no display name passed every check and register() was
\* called with the username as display name.
C27_Witness ==
    /\ vlast.op = "Register.handleSubmit" /\ vlast.phase = "submit"
    /\ vlast.form.displayName = <<>>
    /\ vlast.cid \in DOMAIN inflight
    /\ inflight[vlast.cid].request.body.display_name = vlast.form.username

\* A form failing the username, email, password and confirmation checks
\* at once was stopped by the first of them.
C27_WitnessFirstFailure ==
    /\ vlast.op = "Register.handleSubmit" /\ vlast.phase = "rejected"
    /\ Len(vlast.form.username) = 2
    /\ ~WellFormedEmail(vlast.form.email)
    /\ vlast.form.password # vlast.form.confirmPassword
    /\ view.error = UsernameTooShort
    /\ sent = 0

(***************************************************************************)
(* Properties of the pages, under AppSpec.                                 *)
(***************************************************************************)
SubmitHandlers ==
    { "Login.handleSubmit", "Register.handleSubmit",
      "Profile.handleProfileUpdate", "Profile.handlePasswordChange" }

\* The error a page shows: Login and Register hold it in `error`, Profile
\* in an error message.
Displayed(handler, v) ==
    IF handler \in {"Login.handleSubmit", "Register.handleSubmit"}
    THEN v.error
    ELSE IF v.message.type = "error" THEN v.message.content ELSE JStr("")

\* C23: when a session operation called from Login, Register or Profile
\* returns a failure result, nothing navigates and the page, if it is
\* still mounted, displays exactly the result's error string; a handler
\* of Login or Register changes the location only when the result is a
\* success, and then to /dashboard.
C23_FailureShownVerbatim ==
    (vlast.phase = "answer" /\ vlast.op \in SubmitHandlers) =>
        /\ last.phase = "settle" /\ last.cid = vlast.cid
        /\ last.result.state = "fulfilled"
        /\ ~last.result.value.success =>
               /\ location = vlast.pre.location
               /\ vlast.mounted => Displayed(vlast.op, view) = last.result.value.error
        /\ location # vlast.pre.location =>
               /\ vlast.op \in {"Login.handleSubmit", "Register.handleSubmit"}
               /\ last.result.value.success
               /\ location = <<"dashboard">>

\* Login, still mounted, has shown the server's refusal.
C23_Witness ==
    /\ vlast.phase = "answer" /\ vlast.op = "Login.handleSubmit" /\ vlast.mounted
    /\ ~last.result.value.success
    /\ last.response.kind = "resolve"
    /\ view.error = JStr("bad credentials")
    /\ location = <<"login">>

\* Profile, still mounted, has shown the failure of updateUser after a
\* transport failure.
C23_WitnessProfile ==
    /\ vlast.phase = "answer" /\ vlast.op = "Profile.handleProfileUpdate" /\ vlast.mounted
    /\ last.response.kind = "reject"
    /\ view.message = Message("error", NetworkError)
    /\ location = <<"profile">>

\* Register has navigated to /dashboard after a success.
C23_WitnessRegistered ==
    /\ vlast.phase = "answer" /\ vlast.op = "Register.handleSubmit"
    /\ last.result.value.success
    /\ vlast.pre.location = <<"register">>
    /\ location = <<"dashboard">>

\* The operations each page calls.
PageOperations(page) ==
    CASE page = Page("Login") -> {"login"}
      [] page = Page("Register") -> {"register"}
      [] page = Page("Profile") -> {"updateUser", "changePassword"}
      [] OTHER -> {}

C26_WitnessReset ==
    /\ vlast.phase = "answer" /\ vlast.op = "Login.handleSubmit" /\ vlast.mounted
    /\ vlast.pre.view.loading
    /\ ~last.result.value.success
    /\ ~view.loading

\* Login was left and entered again while its request was in flight: the
\* new component is not loading and has sent a second request.
C26_WitnessRemounted ==
    /\ Rendered = Page("Login")
    /\ Cardinality({c \in DOMAIN inflight : inflight[c].op = "login"}) = 2
    /\ Cardinality(view.calls) = 1

(***************************************************************************)
(* The tags of the prompt editor (pages/PromptEditor.jsx).  A tag and the  *)
(* input are strings, written as sequences of characters.                  *)
(***************************************************************************)
\* The tags of the prompt that the editor loads (line 77), in ASCII.
LoadedTags == << <<"s", "h", "o", "p">>, <<"c", "o", "p", "y">>, <<"a", "d", "s">> >>

\* What is typed into the tag input.
TagInputs ==
    { <<>>, <<" ">>, <<"a">>, <<" ", "a", " ">>, <<"a", " ", "b">>,
      <<"\t", "a", "d", "s", "\n">>, <<" ", " ", "a", " ", "b">> }

\* String.prototype.trim: the text without the white space at its two
\* ends.
RECURSIVE TrimStart(_)
TrimStart(text) ==
    IF text # <<>> /\ Head(text) \in Whitespace THEN TrimStart(Tail(text)) ELSE text

RECURSIVE TrimEnd(_)
TrimEnd(text) ==
    IF text # <<>> /\ text[Len(text)] \in Whitespace
    THEN TrimEnd(SubSeq(text, 1, Len(text) - 1))
    ELSE text

Trim(text) == TrimEnd(TrimStart(text))

\* Array.prototype.includes for an array of strings.
Includes(array, x) == \E i \in 1..Len(array) : array[i] = x

\* array.filter(tag => tag !== tagToRemove)
RECURSIVE FilterOut(_, _)
FilterOut(array, tagToRemove) ==
    IF array = <<>> THEN <<>>
    ELSE (IF Head(array) # tagToRemove THEN <<Head(array)>> ELSE <<>>)
         \o FilterOut(Tail(array), tagToRemove)

\* addTag that looks the input up as typed and stores it trimmed.
AddTagLookupUntrimmed(promptTags, input) ==
    IF Trim(input) # <<>> /\ ~Includes(promptTags, input)
    THEN [tags |-> Append(promptTags, Trim(input)), newTag |-> <<>>]
    ELSE [tags |-> promptTags, newTag |-> input]

\* addTag: the tag list and the input it leaves.
AddTagResult(promptTags, input) ==
    IF Trim(input) # <<>> /\ ~Includes(promptTags, Trim(input))
    THEN [tags |-> Append(promptTags, Trim(input)), newTag |-> <<>>]
    ELSE [tags |-> promptTags, newTag |-> input]

EditorStep(op, arg) == [op |-> op, arg |-> arg, pre |-> [tags |-> tags, newTag |-> newTag]]

EditorFrame == UNCHANGED <<storeVars, themeVars, appVars, hlast>>

\* The timer of the loading effect: the prompt replaces the state.
LoadPrompt ==
    /\ promptLoading
    /\ tags' = LoadedTags
    /\ promptLoading' = FALSE
    /\ elast' = EditorStep("load", <<>>)
    /\ UNCHANGED newTag
    /\ EditorFrame

\* onChange of the tag input.  The form is not rendered while loading.
SetNewTag(text) ==
    /\ ~promptLoading
    /\ newTag' = text
    /\ elast' = EditorStep("setNewTag", text)
    /\ UNCHANGED <<tags, promptLoading>>
    /\ EditorFrame

\* The add button, or Enter in the tag input.
AddTag ==
    /\ ~promptLoading
    /\ tags' = AddTagResult(tags, newTag).tags
    /\ newTag' = AddTagResult(tags, newTag).newTag
    /\ elast' = EditorStep("addTag", newTag)
    /\ UNCHANGED promptLoading
    /\ EditorFrame

\* A click on the badge of a tag.
RemoveTag(tagToRemove) ==
    /\ ~promptLoading
    /\ Includes(tags, tagToRemove)
    /\ tags' = FilterOut(tags, tagToRemove)
    /\ elast' = EditorStep("removeTag", tagToRemove)
    /\ UNCHANGED <<newTag, promptLoading>>
    /\ EditorFrame

\* The editor mounted for a new prompt, or for an existing one with the
\* loading effect run.
TagInit ==
    /\ SessionConstructed
    /\ ThemeConstructed
    /\ RouterConstructed
    /\ prefersDark = FALSE
    /\ storage = <<>>
    /\ tags = <<>>
    /\ newTag = <<>>
    /\ promptLoading \in BOOLEAN
    /\ elast = NoEditorStep
    /\ hlast = NoHookCall

TagNext ==
    \/ LoadPrompt
    \/ \E text \in TagInputs : SetNewTag(text)
    \/ AddTag
    \/ \E tag \in {tags[i] : i \in 1..Len(tags)} : RemoveTag(tag)

TagSpec == TagInit /\ [][TagNext]_vars

(***************************************************************************)
(* Properties of the tag list, under TagSpec.                              *)
(***************************************************************************)
\* t is text without the white space around it.
IsTrimOf(t, text) ==
    /\ t # <<>> => t[1] \notin Whitespace /\ t[Len(t)] \notin Whitespace
    /\ \E i \in 0..Len(text), j \in 0..Len(text) :
           /\ i + Len(t) + j = Len(text)
           /\ \A k \in 1..i : text[k] \in Whitespace
           /\ \A k \in 1..Len(t) : text[i + k] = t[k]
           /\ \A k \in 1..j : text[i + Len(t) + k] \in Whitespace

\* The contiguous pieces of a text, the empty one included.
Pieces(text) ==
    {SubSeq(text, a, b) : a \in 1..(Len(text) + 1), b \in 0..Len(text)}

TagsOf(list) == {list[i] : i \in 1..Len(list)}

\* C29: the tag list never holds a tag twice, an empty tag or a tag with
\* white space at an end; addTag appends the trimmed input and clears
\* the input when the trimmed input is non-empty and not in the list, and
\* changes nothing otherwise; removeTag(t) leaves the tags other than t,
\* in their order, and no t.
C29_TagsStayDistinctAndTrimmed ==
    /\ \A i, j \in 1..Len(tags) : tags[i] = tags[j] => i = j
    /\ \A i \in 1..Len(tags) : tags[i] # <<>> /\ IsTrimOf(tags[i], tags[i])
    /\ elast.op = "addTag" =>
           \E t \in Pieces(elast.pre.newTag) :
               /\ IsTrimOf(t, elast.pre.newTag)
               /\ IF t # <<>> /\ t \notin TagsOf(elast.pre.tags)
                  THEN tags = elast.pre.tags \o <<t>> /\ newTag = <<>>
                  ELSE tags = elast.pre.tags /\ newTag = elast.pre.newTag
    /\ elast.op = "removeTag" =>
           tags = SelectSeq(elast.pre.tags, LAMBDA tag : tag # elast.arg)

\* addTag has appended "ads", typed with white space around it, after
\* the loaded tag of that name had been removed.
C29_Witness ==
    /\ elast.op = "addTag"
    /\ elast.pre.newTag = <<"\t", "a", "d", "s", "\n">>
    /\ tags = << <<"s", "h", "o", "p">>, <<"c", "o", "p", "y">>, <<"a", "d", "s">> >>
    /\ elast.pre.tags = << <<"s", "h", "o", "p">>, <<"c", "o", "p", "y">> >>
    /\ newTag = <<>>

\* addTag has left the list and the input alone: the trimmed input was
\* in the list.
C29_WitnessPresent ==
    /\ elast.op = "addTag"
    /\ elast.pre.newTag = <<" ", "a", " ">>
    /\ <<"a">> \in TagsOf(tags)
    /\ tags = elast.pre.tags
    /\ newTag = <<" ", "a", " ">>

\* removeTag has taken a tag from the middle of the list.
C29_WitnessRemoved ==
    /\ elast.op = "removeTag"
    /\ Len(elast.pre.tags) = 3
    /\ elast.arg = elast.pre.tags[2]
    /\ tags = <<elast.pre.tags[1], elast.pre.tags[3]>>

(***************************************************************************)
(* The hooks useAuth (AuthContext.jsx) and useTheme (ThemeContext.jsx),    *)
(* called by a component under a set of enclosing providers.               *)
(***************************************************************************)
\* {}: the default value both contexts are created with.
EmptyObject == JObj([key \in {} |-> JUndef])
AuthContextDefault == EmptyObject
ThemeContextDefault == EmptyObject

\* The values the providers pass down (the functions left out).
AuthProviderValue == JObj([user |-> user, loading |-> loading])
ThemeProviderValue == JObj([theme |-> theme, isDark |-> theme = Dark])

\* React's useContext: the value of the nearest enclosing provider of the
\* context, or the default the context was created with.
UseContext(default, provider, value, enclosing) ==
    IF provider \in enclosing THEN value ELSE default

Throw(message) == [kind |-> "throw", error |-> message]
Return(value) == [kind |-> "return", value |-> value]

UseAuthError == "useAuth must be used within an AuthProvider"
UseThemeError == "useTheme must be used within a ThemeProvider"

UseAuth(context) ==
    IF ~Truthy(context) THEN Throw(UseAuthError) ELSE Return(context)

UseTheme(context) ==
    IF ~Truthy(context) THEN Throw(UseThemeError) ELSE Return(context)

Providers == {"ThemeProvider", "AuthProvider"}

HookFrame == UNCHANGED <<storeVars, themeVars, appVars, tags, newTag, promptLoading, elast>>

\* A component with the given providers around it calls useAuth().
CallUseAuth(enclosing) ==
    /\ hlast' = [hook |-> "useAuth", providers |-> enclosing,
                 outcome |-> UseAuth(UseContext(AuthContextDefault, "AuthProvider",
                                                AuthProviderValue, enclosing))]
    /\ HookFrame

\* A component with the given providers around it calls useTheme().
CallUseTheme(enclosing) ==
    /\ hlast' = [hook |-> "useTheme", providers |-> enclosing,
                 outcome |-> UseTheme(UseContext(ThemeContextDefault, "ThemeProvider",
                                                 ThemeProviderValue, enclosing))]
    /\ HookFrame

HookInit ==
    /\ SessionConstructed
    /\ ThemeConstructed
    /\ LeavesConstructed
    /\ RouterConstructed
    /\ prefersDark \in BOOLEAN
    /\ \E saved \in AppStorages : storage = saved

HookNext ==
    \/ UNCHANGED appVars /\ Initialize
    \/ UNCHANGED appVars /\ Logout
    \/ ThemeInitialize
    \/ ToggleTheme
    \/ \E enclosing \in SUBSET Providers : CallUseAuth(enclosing)
    \/ \E enclosing \in SUBSET Providers : CallUseTheme(enclosing)

HookSpec == HookInit /\ [][HookNext]_vars

(***************************************************************************)
(* Properties of the hooks, under HookSpec.                                *)
(***************************************************************************)
\* C30: useAuth() called with no AuthProvider around the caller, and
\* useTheme() called with no ThemeProvider around it, throw their error
\* and return nothing.
C30_HooksThrowOutsideProvider ==
    /\ (hlast.hook = "useAuth" /\ "AuthProvider" \notin hlast.providers) =>
           hlast.outcome = Throw(UseAuthError)
    /\ (hlast.hook = "useTheme" /\ "ThemeProvider" \notin hlast.providers) =>
           hlast.outcome = Throw(UseThemeError)

\* useAuth() has returned the empty default object to a component with
\* no provider around it.
C30_WitnessReturnedDefault ==
    /\ hlast.hook = "useAuth"
    /\ hlast.providers = {}
    /\ hlast.outcome.kind = "return"
    /\ DOMAIN hlast.outcome.value.fields = {}

\* useTheme() has returned the empty default object inside AuthProvider
\* alone.
C30_WitnessThemeDefault ==
    /\ hlast.hook = "useTheme"
    /\ hlast.providers = {"AuthProvider"}
    /\ hlast.outcome.kind = "return"
    /\ DOMAIN hlast.outcome.value.fields = {}

====
